---------------------------- MODULE Spec2Model ----------------------------
(***************************************************************************)
(* Twitch channel adapter of clawdbot: the per-account connection manager  *)
(* (TwitchClientManager), the gateway entry points that create managers,   *)
(* and the chat transport the manager drives.                              *)
(*                                                                         *)
(* JavaScript runs one job at a time.  An async function runs             *)
(* synchronously up to its first await, so every action below is one such  *)
(* synchronous segment: the segment of a call up to its first await, the   *)
(* continuation after an await, or one event callback.                     *)
(***************************************************************************)
EXTENDS Integers, Sequences, FiniteSets, TLC

(***************************************************************************)
(* Bounds of the model.                                                    *)
(***************************************************************************)
\* TwitchClientManager instances constructed
MaxManagers == 2
\* ChatClient instances constructed
MaxClients == 2
\* getClient and onMessage calls issued
MaxOps == 3
\* sendMessage calls issued
MaxSends == 2
\* inbound events delivered to handlers
MaxEvents == 2
\* monitorTwitchProvider sessions started
MaxSessions == 2
\* inbound events the transports of the monitor emit
MaxInbox == 2
\* reply payloads the dispatcher hands to deliver for one message
MaxPieces == 2
\* characters of a text given to chunkTextForTwitch
MaxLen == 5
\* the limit given to chunkTextForTwitch
MaxLimit == 3
\* parts a token given to normalizeToken is put together from
MaxParts == 3

(***************************************************************************)
(* Values.  A JavaScript string that only is compared is a TLA+ string; a  *)
(* string that is sliced (a token) is a sequence of characters.            *)
(***************************************************************************)
Null == "<undefined>"          \* undefined / null of an optional string field
NoToken == <<>>                \* the empty (falsy) token string
OauthPrefix == <<"o", "a", "u", "t", "h", ":">>
TokA == OauthPrefix \o <<"a">> \* a per-account config token, with prefix
TokB == <<"b">>                \* a base-level config token, without prefix
TokE == OauthPrefix \o <<"e">> \* the environment token
DEFAULT_ACCOUNT_ID == "default"
AccountIds == {DEFAULT_ACCOUNT_ID, "alt"}

\* TwitchAccountConfig values the operations are called with.
Account(username, channel, clientId, clientSecret) ==
    [username |-> username, channel |-> channel, clientId |-> clientId,
     clientSecret |-> clientSecret]
Accounts ==
    { Account("bot", "chan", "cid", Null),    \* joins another room
      Account("bot", Null, "cid", Null),      \* channel defaults to username
      Account("bot", "bot", "cid", Null),     \* the same key, spelled out
      Account("bot", "chan", Null, Null) }    \* no clientId

\* The configuration tree as token resolution reads it: the token of each
\* account entry and the base-level token.  NoCfg is a call made without cfg.
NoCfg == [accounts |-> [id \in AccountIds |-> NoToken], base |-> NoToken]
CfgAlt ==
    [accounts |-> [id \in AccountIds |-> IF id = "alt" THEN TokA ELSE NoToken],
     base |-> NoToken]
CfgBase == [accounts |-> [id \in AccountIds |-> NoToken], base |-> TokB]

\* What a getClient call resolves its token from: the cfg and accountId it is
\* passed and process.env.CLAWDBOT_TWITCH_ACCESS_TOKEN as it is at the call.
Ctx(cfg, accountId, env) == [cfg |-> cfg, accountId |-> accountId, env |-> env]
TokenCtxs ==
    { Ctx(NoCfg, Null, NoToken),     \* nothing anywhere
      Ctx(NoCfg, Null, TokE),        \* no accountId: the default account, env
      Ctx(NoCfg, "alt", TokE),       \* env is not for other accounts
      Ctx(CfgAlt, "alt", NoToken),   \* per-account config value
      Ctx(CfgBase, "default", TokE)} \* base-level config value, before env

VARIABLES
    clients,          \* per manager: Map<key, ChatClient>  (twitch-client.ts:12)
    messageHandlers,  \* per manager: Map<key, handler>     (twitch-client.ts:13)
    transports,       \* every ChatClient constructed, by instance number
    handlers,         \* every handler closure passed to onMessage, by number
    calls,            \* the async calls issued, in order of issue
    status,           \* the gateway's per-account runtime status (ctx.setStatus)
    sessions,         \* the monitorTwitchProvider calls, in order of issue
    inbox,            \* every inbound event a transport emitted, and its fate
    jobs,             \* the processTwitchMessage calls, one per accepted event,
                      \* each with the client.say calls it started
    sink,             \* what statusSink was last given
    evaluation        \* a pure function applied to an input: input and result

\* The state of the monitor and of a function evaluation.
auxVars == <<sessions, inbox, jobs, sink, evaluation>>

vars == <<clients, messageHandlers, transports, handlers, calls, status, auxVars>>

(***************************************************************************)
(* JavaScript Map operations.                                              *)
(***************************************************************************)
EmptyMap == <<>>
MapHas(map, k) == k \in DOMAIN map
MapSet(map, k, v) == [x \in DOMAIN map \cup {k} |-> IF x = k THEN v ELSE map[x]]
MapDelete(map, k) == [x \in DOMAIN map \ {k} |-> map[x]]

(***************************************************************************)
(* Pure helpers of the manager.                                            *)
(***************************************************************************)
\* `${account.username}:${account.channel ?? account.username}`
getAccountKey(account) ==
    account.username \o ":" \o
        (IF account.channel # Null THEN account.channel ELSE account.username)

startsWith(s, prefix) ==
    Len(s) >= Len(prefix) /\ SubSeq(s, 1, Len(prefix)) = prefix

\* The slice one character short of the prefix.
normalizeToken_SliceFive(token) ==
    IF startsWith(token, OauthPrefix) THEN SubSeq(token, 6, Len(token)) ELSE token

\* token.startsWith("oauth:") ? token.slice(6) : token
normalizeToken(token) ==
    IF startsWith(token, OauthPrefix) THEN SubSeq(token, 7, Len(token)) ELSE token

\* accountId ?? DEFAULT_ACCOUNT_ID
normalizeAccountId(accountId) ==
    IF accountId = Null THEN DEFAULT_ACCOUNT_ID ELSE accountId

\* Token resolution: per-account config value, then base-level config value,
\* then the environment variable, which is consulted for the default account
\* only.
resolveTwitchToken(cfg, accountId, envToken) ==
    LET id == normalizeAccountId(accountId)
    IN  IF cfg.accounts[id] # NoToken
            THEN [token |-> cfg.accounts[id], source |-> "config"]
        ELSE IF cfg.base # NoToken
            THEN [token |-> cfg.base, source |-> "config"]
        ELSE IF id = DEFAULT_ACCOUNT_ID /\ envToken # NoToken
            THEN [token |-> envToken, source |-> "env"]
        ELSE [token |-> NoToken, source |-> "none"]

\* The static provider whatever the account holds.
createAuthProvider_AlwaysStatic(account, normalizedToken) ==
    [kind |-> "static", token |-> normalizedToken]

\* clientSecret present: RefreshingAuthProvider, else StaticAuthProvider.
createAuthProvider(account, normalizedToken) ==
    [kind |-> IF account.clientSecret # Null THEN "refreshing" ELSE "static",
     token |-> normalizedToken]

Error(message) == [type |-> "Error", message |-> message]

(***************************************************************************)
(* getClient.  The body holds no await: lookup, credential checks, client  *)
(* construction, connect() (not awaited) and clients.set run in one        *)
(* synchronous segment.  getClientOutcome is what that segment decides,    *)
(* the ...AfterGetClient operators are what it leaves in the state.        *)
(***************************************************************************)
\* getClient without the lookup of an existing client.
getClientIn_NoReuse(registry, account, ctx) ==
    LET tokenResolution == resolveTwitchToken(ctx.cfg, ctx.accountId, ctx.env)
    IN  IF tokenResolution.token = NoToken
            THEN [kind |-> "throw", error |-> Error("Missing Twitch token")]
        ELSE IF account.clientId = Null
            THEN [kind |-> "throw", error |-> Error("Missing Twitch client ID")]
        ELSE [kind |-> "created", client |-> Len(transports) + 1,
              auth |-> createAuthProvider(account,
                                          normalizeToken(tokenResolution.token))]

getClientIn(registry, account, ctx) ==
    LET key == getAccountKey(account)
        tokenResolution == resolveTwitchToken(ctx.cfg, ctx.accountId, ctx.env)
    IN  IF MapHas(registry, key)
            THEN [kind |-> "existing", client |-> registry[key]]
        ELSE IF tokenResolution.token = NoToken
            THEN [kind |-> "throw", error |-> Error("Missing Twitch token")]
        ELSE IF account.clientId = Null
            THEN [kind |-> "throw", error |-> Error("Missing Twitch client ID")]
        ELSE [kind |-> "created", client |-> Len(transports) + 1,
              auth |-> createAuthProvider(account,
                                          normalizeToken(tokenResolution.token))]

getClientOutcome(m, account, ctx) ==
    getClientIn(clients[m], account, ctx)

\* The client constructed and connected before the credentials are checked.
transportsAfterGetClient_BeforeChecks(m, account, outcome) ==
    IF outcome.kind # "existing"
        THEN Append(transports,
                    [mgr |-> m, key |-> getAccountKey(account),
                     auth |-> "static", connect |-> 1, quit |-> 0,
                     phase |-> "connecting"])
        ELSE transports

\* new ChatClient(...); setupClientHandlers(client, account); client.connect()
transportsAfterGetClient(m, account, outcome) ==
    IF outcome.kind = "created"
        THEN Append(transports,
                    [mgr |-> m, key |-> getAccountKey(account),
                     auth |-> outcome.auth.kind, connect |-> 1, quit |-> 0,
                     phase |-> "connecting"])
        ELSE transports

\* The client not recorded in the segment that constructs it.
clientsAfterGetClient_NotRecorded(m, account, outcome) == clients

\* this.clients.set(key, client)
clientsAfterGetClient(m, account, outcome) ==
    IF outcome.kind = "created"
        THEN [clients EXCEPT ![m] = MapSet(@, getAccountKey(account), outcome.client)]
        ELSE clients

\* What the caller of getClient records: the outcome without the provider.
Settled(outcome) ==
    [kind |-> outcome.kind,
     client |-> IF outcome.kind = "throw" THEN 0 ELSE outcome.client,
     error |-> IF outcome.kind = "throw" THEN outcome.error ELSE Error(Null)]

\* The room for one more ChatClient, should the call construct one.
CanRun(outcome) == outcome.kind = "created" => Len(transports) < MaxClients

\* Whether every call issued so far has been awaited: the next call is then
\* sequential to them.  The record of a call keeps it; the code has no such flag.
AllAwaited == \A i \in DOMAIN calls : calls[i].pc = "done"

\* The room for one more getClient or onMessage call in the records.
CanCall == Len(calls) + Len(handlers) < MaxOps

\* status.defaultRuntime, for each account id
defaultRuntime ==
    [id \in AccountIds |->
        [running |-> FALSE, lastStartAt |-> Null, lastStopAt |-> Null,
         lastError |-> Null]]

\* No monitor started, nothing received or sent, no function applied.
InitAux ==
    /\ sessions = <<>>
    /\ inbox = <<>>
    /\ jobs = <<>>
    /\ sink = [lastInboundAt |-> Null, lastOutboundAt |-> Null]
    /\ evaluation = [op |-> "none"]

\* The state after `new TwitchClientManager(logger)`: one manager, both maps empty.
Init ==
    /\ clients = <<EmptyMap>>
    /\ messageHandlers = <<EmptyMap>>
    /\ transports = <<>>
    /\ handlers = <<>>
    /\ calls = <<>>
    /\ status = defaultRuntime
    /\ InitAux

\* manager.getClient(account, cfg, accountId), up to the return of its promise.
GetClientCall(m, account, ctx) ==
    LET outcome == getClientOutcome(m, account, ctx)
    IN  /\ CanCall
        /\ CanRun(outcome)
        /\ transports' = transportsAfterGetClient(m, account, outcome)
        /\ clients' = clientsAfterGetClient(m, account, outcome)
        /\ calls' = Append(calls,
                           [op |-> "getClient", mgr |-> m,
                            key |-> getAccountKey(account), pc |-> "settled",
                            sequential |-> AllAwaited,
                            outcome |-> Settled(outcome), result |-> Null])
        /\ UNCHANGED <<messageHandlers, handlers, status, auxVars>>

\* The caller's await of the getClient promise resumes.
GetClientAwait(i) ==
    /\ calls[i].op = "getClient"
    /\ calls[i].pc = "settled"
    /\ calls' = [calls EXCEPT ![i].pc = "done",
                              ![i].result =
                                  IF calls[i].outcome.kind = "throw"
                                      THEN [kind |-> "throw", client |-> 0]
                                      ELSE [kind |-> "return",
                                            client |-> calls[i].outcome.client]]
    /\ UNCHANGED <<clients, messageHandlers, transports, handlers, status, auxVars>>

(***************************************************************************)
(* onMessage and the function it returns.                                  *)
(***************************************************************************)
\* A registration that keeps the handler already installed for the key.
messageHandlersAfterOnMessage_KeepFirst(m, key, h) ==
    IF MapHas(messageHandlers[m], key)
        THEN messageHandlers
        ELSE [messageHandlers EXCEPT ![m] = MapSet(@, key, h)]

\* this.messageHandlers.set(key, handler)
messageHandlersAfterOnMessage(m, key, h) ==
    [messageHandlers EXCEPT ![m] = MapSet(@, key, h)]

\* () => { this.messageHandlers.delete(key) }
messageHandlersAfterUnregister(h) ==
    [messageHandlers EXCEPT ![handlers[h].mgr] = MapDelete(@, handlers[h].key)]

\* manager.onMessage(account, handler): handler number h is the closure passed.
OnMessage(m, account) ==
    LET h == Len(handlers) + 1
        key == getAccountKey(account)
    IN  /\ CanCall
        /\ handlers' = Append(handlers,
                              [mgr |-> m, key |-> key, received |-> 0,
                               unregistered |-> FALSE, accountId |-> Null])
        /\ messageHandlers' = messageHandlersAfterOnMessage(m, key, h)
        /\ UNCHANGED <<clients, transports, calls, status, auxVars>>

\* A call of the function that onMessage returned for handler h.  The field
\* unregistered records that the call was made; the code keeps no such flag.
Unregister(h) ==
    /\ messageHandlers' = messageHandlersAfterUnregister(h)
    /\ handlers' = [handlers EXCEPT ![h].unregistered = TRUE]
    /\ UNCHANGED <<clients, transports, calls, status, auxVars>>

(***************************************************************************)
(* disconnect and disconnectAll.  Neither holds an await.                  *)
(***************************************************************************)
Quit(c) == [transports EXCEPT ![c].quit = @ + 1]

\* disconnect without the quit.
transportsAfterDisconnect_NoQuit(m, key) == transports

\* client.quit() on the client found, if any
transportsAfterDisconnect(m, key) ==
    IF MapHas(clients[m], key) THEN Quit(clients[m][key]) ELSE transports

clientsAfterDisconnect(m, key) ==
    IF MapHas(clients[m], key)
        THEN [clients EXCEPT ![m] = MapDelete(@, key)]
        ELSE clients

\* The handler deleted outside the `if (client)` block.
messageHandlersAfterDisconnect_Always(m, key) ==
    [messageHandlers EXCEPT ![m] = MapDelete(@, key)]

\* The handler left in place by a disconnect.
messageHandlersAfterDisconnect_Kept(m, key) == messageHandlers

messageHandlersAfterDisconnect(m, key) ==
    IF MapHas(clients[m], key)
        THEN [messageHandlers EXCEPT ![m] = MapDelete(@, key)]
        ELSE messageHandlers

Disconnect(m, account) ==
    LET key == getAccountKey(account)
    IN  /\ transports' = transportsAfterDisconnect(m, key)
        /\ clients' = clientsAfterDisconnect(m, key)
        /\ messageHandlers' = messageHandlersAfterDisconnect(m, key)
        /\ UNCHANGED <<handlers, calls, status, auxVars>>

Registered(m) == {clients[m][k] : k \in DOMAIN clients[m]}

\* Only the first client of the registry is quit.
transportsAfterDisconnectAll_FirstOnly(m) ==
    [c \in DOMAIN transports |->
        IF c \in Registered(m) /\ \A d \in Registered(m) : c <= d
            THEN [transports[c] EXCEPT !.quit = @ + 1]
            ELSE transports[c]]

\* this.clients.forEach((client) => client.quit())
transportsAfterDisconnectAll(m) ==
    [c \in DOMAIN transports |->
        IF c \in Registered(m)
            THEN [transports[c] EXCEPT !.quit = @ + 1]
            ELSE transports[c]]

DisconnectAll(m) ==
    /\ transports' = transportsAfterDisconnectAll(m)
    /\ clients' = [clients EXCEPT ![m] = EmptyMap]
    /\ messageHandlers' = [messageHandlers EXCEPT ![m] = EmptyMap]
    /\ UNCHANGED <<handlers, calls, status, auxVars>>

(***************************************************************************)
(* sendMessage: try { client = await getClient(); id; await say() } catch  *)
(***************************************************************************)
\* String(value) of the non-Error values a rejection carries here.
StringOf(value) ==
    CASE value.type = "string" -> value.value
      [] value.type = "undefined" -> "undefined"

\* error instanceof Error ? error.message : String(error)
errorText(error) ==
    IF error.type = "Error" THEN error.message ELSE StringOf(error)

\* A catch block that handles Error objects only and rethrows the rest.
sendMessageCatch_Rethrow(error) ==
    IF error.type = "Error"
        THEN [kind |-> "return", ok |-> FALSE, error |-> error.message,
              messageId |-> Null]
        ELSE [kind |-> "throw", ok |-> FALSE, error |-> Null, messageId |-> Null]

\* catch (error) { ...; return { ok: false, error: <text> } }
sendMessageCatch(error) ==
    [kind |-> "return", ok |-> FALSE, error |-> errorText(error), messageId |-> Null]

\* return { ok: true, messageId }
sendMessageOk(messageId) ==
    [kind |-> "return", ok |-> TRUE, error |-> Null, messageId |-> messageId]

\* `${Date.now()}-${Math.random()...}`: the clock and the generator decide.
MessageIds == {"1700000000000-k3x", "1700000000001-q9z"}

\* What a say() on the transport can reject with.
SayRejections ==
    { Error("Rate limited"),
      [type |-> "string", value |-> "String error"],
      [type |-> "undefined"] }

\* manager.sendMessage(...) up to its await of getClient.
SendMessageCall(m, account, ctx) ==
    LET outcome == getClientOutcome(m, account, ctx)
    IN  /\ Len(calls) < MaxSends
        /\ CanRun(outcome)
        /\ transports' = transportsAfterGetClient(m, account, outcome)
        /\ clients' = clientsAfterGetClient(m, account, outcome)
        /\ calls' = Append(calls,
                           [op |-> "sendMessage", mgr |-> m,
                            key |-> getAccountKey(account), pc |-> "settled",
                            outcome |-> Settled(outcome), result |-> Null])
        /\ UNCHANGED <<messageHandlers, handlers, status, auxVars>>

\* The await of getClient resumes: a rejection lands in the catch block,
\* a client gets its say() started.
SendMessageResume(i) ==
    /\ calls[i].op = "sendMessage"
    /\ calls[i].pc = "settled"
    /\ calls' = IF calls[i].outcome.kind = "throw"
                    THEN [calls EXCEPT ![i].pc = "done",
                                       ![i].result = sendMessageCatch(calls[i].outcome.error)]
                    ELSE [calls EXCEPT ![i].pc = "say"]
    /\ UNCHANGED <<clients, messageHandlers, transports, handlers, status, auxVars>>

\* The promise of say() resolves.
SayResolves(i, messageId) ==
    /\ calls[i].op = "sendMessage"
    /\ calls[i].pc = "say"
    /\ calls' = [calls EXCEPT ![i].pc = "done", ![i].result = sendMessageOk(messageId)]
    /\ UNCHANGED <<clients, messageHandlers, transports, handlers, status, auxVars>>

\* The promise of say() rejects.
SayRejects(i, error) ==
    /\ calls[i].op = "sendMessage"
    /\ calls[i].pc = "say"
    /\ calls' = [calls EXCEPT ![i].pc = "done", ![i].result = sendMessageCatch(error)]
    /\ UNCHANGED <<clients, messageHandlers, transports, handlers, status, auxVars>>

(***************************************************************************)
(* The chat transport.                                                     *)
(***************************************************************************)
\* The connect() that getClient started completes.
ConnectCompletes(c) ==
    /\ transports[c].phase = "connecting"
    /\ transports[c].quit = 0
    /\ transports' = [transports EXCEPT ![c].phase = "connected"]
    /\ UNCHANGED <<clients, messageHandlers, handlers, calls, status, auxVars>>

\* The callbacks calling every handler of the client's manager.
handlersAfterEvent_Broadcast(c) ==
    LET registry == messageHandlers[transports[c].mgr]
    IN  [h \in DOMAIN handlers |->
            IF \E key \in DOMAIN registry : registry[key] = h
                THEN [handlers[h] EXCEPT !.received = @ + 1]
                ELSE handlers[h]]

\* The callbacks setupClientHandlers installed on client c: look the handler
\* of the client's key up in the client's manager and call it, if there is one.
handlersAfterEvent(c) ==
    LET registry == messageHandlers[transports[c].mgr]
        key == transports[c].key
    IN  IF MapHas(registry, key)
            THEN [handlers EXCEPT ![registry[key]].received = @ + 1]
            ELSE handlers

\* client c emits a chat message or a whisper.
TransportEvent(c) ==
    /\ transports[c].phase = "connected"
    /\ transports[c].quit = 0
    /\ handlers' = handlersAfterEvent(c)
    /\ \A h \in DOMAIN handlers : handlers'[h].received <= MaxEvents
    /\ UNCHANGED <<clients, messageHandlers, transports, calls, status, auxVars>>

(***************************************************************************)
(* The gateway adapter of the plugin.                                      *)
(***************************************************************************)
\* Date.now() at the moment of the call; the value is not looked at.
Now == "now"

\* gateway.startAccount(ctx): a new manager, its handler, the status, and
\* getClient(account) with neither cfg nor accountId; env is the environment
\* token at the call.  After the await the call logs, or, when getClient
\* threw, sets the status to not running with the error text and rethrows.
StartAccount(account, accountId, env) ==
    LET m == Len(clients) + 1
        h == Len(handlers) + 1
        key == getAccountKey(account)
        outcome == getClientIn(EmptyMap, account, Ctx(NoCfg, Null, env))
    IN  /\ Len(clients) < MaxManagers
        /\ CanCall
        /\ CanRun(outcome)
        /\ handlers' = Append(handlers,
                              [mgr |-> m, key |-> key, received |-> 0,
                               unregistered |-> FALSE, accountId |-> accountId])
        /\ messageHandlers' = Append(messageHandlers, MapSet(EmptyMap, key, h))
        /\ transports' = transportsAfterGetClient(m, account, outcome)
        /\ clients' = Append(clients,
                             IF outcome.kind = "created"
                                 THEN MapSet(EmptyMap, key, outcome.client)
                                 ELSE EmptyMap)
        /\ status' = [status EXCEPT ![accountId] =
                         IF outcome.kind = "throw"
                             THEN [@ EXCEPT !.running = FALSE,
                                            !.lastStartAt = Now,
                                            !.lastError = errorText(outcome.error)]
                             ELSE [@ EXCEPT !.running = TRUE,
                                            !.lastStartAt = Now,
                                            !.lastError = Null]]
        /\ UNCHANGED <<calls, auxVars>>

\* gateway.stopAccount(ctx): the status only; no manager is looked up.
StopAccount(accountId) ==
    /\ status' = [status EXCEPT ![accountId].running = FALSE,
                                ![accountId].lastStopAt = Now]
    /\ UNCHANGED <<clients, messageHandlers, transports, handlers, calls, auxVars>>

\* No manager exists before the gateway starts an account.
InitGateway ==
    /\ clients = <<>>
    /\ messageHandlers = <<>>
    /\ transports = <<>>
    /\ handlers = <<>>
    /\ calls = <<>>
    /\ status = defaultRuntime
    /\ InitAux

NextGateway ==
    \/ \E account \in Accounts, accountId \in AccountIds, env \in {NoToken, TokE} :
           StartAccount(account, accountId, env)
    \/ \E accountId \in AccountIds : StopAccount(accountId)
    \/ \E c \in DOMAIN transports :
           \/ ConnectCompletes(c)
           \/ TransportEvent(c)

SpecGateway == InitGateway /\ [][NextGateway]_vars

(***************************************************************************)
(* Connection lifecycle of one manager: getClient, onMessage, disconnect,  *)
(* disconnectAll, and the transport's connect completing.                  *)
(***************************************************************************)
Next ==
    \/ \E account \in Accounts, ctx \in TokenCtxs :
           GetClientCall(1, account, ctx)
    \/ \E i \in DOMAIN calls : GetClientAwait(i)
    \/ \E account \in Accounts :
           \/ OnMessage(1, account)
           \/ Disconnect(1, account)
    \/ DisconnectAll(1)
    \/ \E c \in DOMAIN transports : ConnectCompletes(c)

Spec == Init /\ [][Next]_vars

(***************************************************************************)
(* Inbound delivery of one manager: registrations, the functions they      *)
(* return, and the events of the transport.                                *)
(***************************************************************************)
NextInbound ==
    \/ \E account \in Accounts, ctx \in TokenCtxs :
           GetClientCall(1, account, ctx)
    \/ \E account \in Accounts :
           \/ OnMessage(1, account)
           \/ Disconnect(1, account)
    \/ \E h \in DOMAIN handlers : Unregister(h)
    \/ \E c \in DOMAIN transports :
           \/ ConnectCompletes(c)
           \/ TransportEvent(c)

SpecInbound == Init /\ [][NextInbound]_vars

(***************************************************************************)
(* Outbound sends of one manager.                                          *)
(***************************************************************************)
NextSend ==
    \/ \E account \in Accounts, ctx \in TokenCtxs :
           SendMessageCall(1, account, ctx)
    \/ \E i \in DOMAIN calls :
           \/ SendMessageResume(i)
           \/ \E messageId \in MessageIds : SayResolves(i, messageId)
           \/ \E error \in SayRejections : SayRejects(i, error)
    \/ \E account \in Accounts : Disconnect(1, account)
    \/ \E c \in DOMAIN transports : ConnectCompletes(c)

SpecSend == Init /\ [][NextSend]_vars

(***************************************************************************)
(* Inbound access control: the decision the monitor's handler takes for a  *)
(* message.  Names and words are JavaScript strings; Chars gives the       *)
(* characters of each string the model uses, for the functions that look   *)
(* inside a string.                                                        *)
(***************************************************************************)
Chars ==
    ("bot" :> <<"b", "o", "t">>) @@ ("Bot" :> <<"B", "o", "t">>) @@
    ("amy" :> <<"a", "m", "y">>) @@ ("hi" :> <<"h", "i">>) @@
    ("@bot" :> <<"@", "b", "o", "t">>) @@ ("@BOT" :> <<"@", "B", "O", "T">>) @@
    ("@amy" :> <<"@", "a", "m", "y">>) @@ ("joe" :> <<"j", "o", "e">>)

LowerChar(ch) ==
    CASE ch = "B" -> "b" [] ch = "O" -> "o" [] ch = "T" -> "t" [] OTHER -> ch

\* String.prototype.toLowerCase, on the characters of s
toLowerCase(s) == [i \in DOMAIN Chars[s] |-> LowerChar(Chars[s][i])]

\* An optional array or boolean of the account configuration.
None == [defined |-> FALSE]
Some(value) == [defined |-> TRUE, value |-> value]

\* The policy fields of a TwitchAccountConfig, added to an account.
WithPolicy(account, allowFrom, allowedRoles, requireMention) ==
    [username |-> account.username, channel |-> account.channel,
     clientId |-> account.clientId, clientSecret |-> account.clientSecret,
     allowFrom |-> allowFrom, allowedRoles |-> allowedRoles,
     requireMention |-> requireMention]

UserIds == {"123", "456"}
RoleTags == {"moderator", "owner", "vip", "subscriber", "all"}

\* A TwitchChatMessage: the fields the handler and access control read.
ChatMessage(username, userId, words, isMod, isOwner, isVip, isSub) ==
    [username |-> username, userId |-> userId, message |-> words,
     isMod |-> isMod, isOwner |-> isOwner, isVip |-> isVip, isSub |-> isSub]

\* The text has a word "@name" whose name, lower-cased, is the bot's username.
mentionsBot(words, botUsername) ==
    \E i \in DOMAIN words :
        /\ Chars[words[i]][1] = "@"
        /\ Tail(toLowerCase(words[i])) = botUsername

\* A role tag of the list whose flag is true for the sender.
hasAllowedRole(message, allowedRoles) ==
    \/ "moderator" \in allowedRoles /\ message.isMod
    \/ "owner" \in allowedRoles /\ message.isOwner
    \/ "vip" \in allowedRoles /\ message.isVip
    \/ "subscriber" \in allowedRoles /\ message.isSub

Allowed == [allowed |-> TRUE, reason |-> Null]
Denied(reason) == [allowed |-> FALSE, reason |-> reason]

\* checkTwitchAccessControl({message, account, botUsername}): a member of a
\* non-empty allowFrom is accepted at once; otherwise a non-empty allowedRoles
\* decides; with neither list configured the policy is open, but for
\* requireMention; a configured list that admits nobody rejects.
checkTwitchAccessControl(message, account, botUsername) ==
    IF /\ account.allowFrom.defined
       /\ message.userId \in account.allowFrom.value
        THEN Allowed
    ELSE IF account.allowedRoles.defined /\ account.allowedRoles.value # {}
        THEN IF \/ "all" \in account.allowedRoles.value
                \/ hasAllowedRole(message, account.allowedRoles.value)
                 THEN Allowed
                 ELSE Denied("sender does not have any of the required roles")
    ELSE IF ~account.allowFrom.defined /\ ~account.allowedRoles.defined
        THEN IF /\ account.requireMention.defined
                /\ account.requireMention.value
                /\ ~mentionsBot(message.message, botUsername)
                 THEN Denied("message does not mention the bot")
                 ELSE Allowed
    ELSE Denied("sender is not in allowFrom allowlist")

\* const botUsername = account.username.toLowerCase(), as the sender's name.
botUsernameOf_Sender(message, account) == toLowerCase(message.username)

\* const botUsername = account.username.toLowerCase()
botUsernameOf(message, account) == toLowerCase(account.username)

\* The comparison without the lower-casing.
isOwnMessage_CaseSensitive(message, account) ==
    Chars[message.username] = Chars[account.username]

\* message.username.toLowerCase() === botUsername
isOwnMessage(message, account) ==
    toLowerCase(message.username) = botUsernameOf(message, account)

Decision(decision, reason) == [decision |-> decision, reason |-> reason]

\* The handler with the test of access.allowed the wrong way round.
monitorHandlerDecision_Inverted(stopped, message, account) ==
    IF stopped THEN Decision("stopped", Null)
    ELSE IF isOwnMessage(message, account) THEN Decision("self", Null)
    ELSE LET access == checkTwitchAccessControl(
                           message, account, botUsernameOf(message, account))
         IN  IF access.allowed
                 THEN Decision("denied", "blocked")
                 ELSE Decision("accepted", Null)

\* The handler of monitorTwitchProvider up to the decision to process the
\* message: stopped, the bot's own message, denied by access control, or
\* accepted.
monitorHandlerDecision(stopped, message, account) ==
    IF stopped THEN Decision("stopped", Null)
    ELSE IF isOwnMessage(message, account) THEN Decision("self", Null)
    ELSE LET access == checkTwitchAccessControl(
                           message, account, botUsernameOf(message, account))
         IN  IF ~access.allowed
                 THEN Decision("denied", access.reason)
                 ELSE Decision("accepted", Null)

\* The inputs of the access decision.
PolicyLists(S) == {None} \cup {Some(x) : x \in S}
PolicyAccounts ==
    { WithPolicy(Account(username, Null, "cid", Null),
                 allowFrom, allowedRoles, requireMention) :
        username \in {"bot", "Bot"},
        allowFrom \in PolicyLists({{}, {"123"}}),
        allowedRoles \in PolicyLists({{}, {"moderator"}, {"vip", "subscriber"},
                                      {"all"}, {"owner"}}),
        requireMention \in PolicyLists(BOOLEAN) }
ChatMessages ==
    { ChatMessage(username, userId, words, isMod, isOwner, isVip, isSub) :
        username \in {"bot", "Bot", "amy"},
        userId \in UserIds,
        words \in {<<"hi">>, <<"hi", "@BOT">>, <<"@amy", "hi">>},
        isMod \in BOOLEAN, isOwner \in BOOLEAN,
        isVip \in BOOLEAN, isSub \in BOOLEAN }

\* A message and an account are given; the handler has not run.
InitAccess ==
    /\ clients = <<EmptyMap>>
    /\ messageHandlers = <<EmptyMap>>
    /\ transports = <<>>
    /\ handlers = <<>>
    /\ calls = <<>>
    /\ status = defaultRuntime
    /\ sessions = <<>>
    /\ inbox = <<>>
    /\ jobs = <<>>
    /\ sink = [lastInboundAt |-> Null, lastOutboundAt |-> Null]
    /\ \E message \in ChatMessages, account \in PolicyAccounts :
           evaluation = [op |-> "handler", message |-> message,
                         account |-> account, pc |-> "call",
                         result |-> Decision("none", Null)]

\* The handler is called with the message, not stopped.
HandleMessage ==
    /\ evaluation.op = "handler"
    /\ evaluation.pc = "call"
    /\ evaluation' =
           [evaluation EXCEPT
               !.pc = "done",
               !.result = monitorHandlerDecision(FALSE, evaluation.message,
                                                 evaluation.account)]
    /\ UNCHANGED <<clients, messageHandlers, transports, handlers, calls, status,
                   sessions, inbox, jobs, sink>>

NextAccess == HandleMessage

SpecAccess == InitAccess /\ [][NextAccess]_vars

(***************************************************************************)
(* The monitor: monitorTwitchProvider, its handler, processTwitchMessage   *)
(* and deliverTwitchReply.  The continuation of `await getClient(...)` is  *)
(* a promise job: it runs before any event of the network, so no transport *)
(* event and no say completion is taken while one is pending.              *)
(***************************************************************************)
\* getOrCreateClientManager(accountId, logger): one manager per account id,
\* kept for the life of the process.
getOrCreateClientManager(accountId) ==
    IF accountId = DEFAULT_ACCOUNT_ID THEN 1 ELSE 2

\* The account the monitor is started with, and the messages its room emits:
\* the bot's own, a moderator's and a plain viewer's.
MonitorAccount ==
    WithPolicy(Account("bot", "chan", "cid", Null),
               None, Some({"moderator"}), None)
MonitorMessages ==
    { ChatMessage("Bot", "123", <<"hi">>, TRUE, FALSE, FALSE, FALSE),
      ChatMessage("amy", "456", <<"hi">>, TRUE, FALSE, FALSE, FALSE),
      ChatMessage("amy", "456", <<"hi">>, FALSE, FALSE, FALSE, FALSE) }

\* options.config and the environment, as token resolution reads them.
MonitorCtx(cfg, accountId) == Ctx(cfg, accountId, TokE)

\* monitorTwitchProvider(options) up to `await clientManager.getClient(...)`.
MonitorStart(account, accountId, cfg) ==
    LET m == getOrCreateClientManager(accountId)
        outcome == getClientOutcome(m, account, MonitorCtx(cfg, accountId))
    IN  /\ Len(sessions) < MaxSessions
        /\ CanRun(outcome)
        /\ transports' = transportsAfterGetClient(m, account, outcome)
        /\ clients' = clientsAfterGetClient(m, account, outcome)
        /\ sessions' = Append(sessions,
                              [account |-> account, accountId |-> accountId,
                               cfg |-> cfg, mgr |-> m, pc |-> "getClient",
                               outcome |-> Settled(outcome), stopped |-> FALSE,
                               handler |-> 0])
        /\ UNCHANGED <<messageHandlers, handlers, calls, status, inbox, jobs,
                       sink, evaluation>>

\* The rest of monitorTwitchProvider: the rejection is rethrown, or the
\* handler is registered and stop is given to the abort signal and returned.
MonitorResume(s) ==
    LET session == sessions[s]
        h == Len(handlers) + 1
        key == getAccountKey(session.account)
    IN  /\ session.pc = "getClient"
        /\ IF session.outcome.kind = "throw"
               THEN /\ sessions' = [sessions EXCEPT ![s].pc = "failed"]
                    /\ UNCHANGED <<handlers, messageHandlers>>
               ELSE /\ handlers' = Append(handlers,
                                          [mgr |-> session.mgr, key |-> key,
                                           received |-> 0, unregistered |-> FALSE,
                                           accountId |-> session.accountId])
                    /\ messageHandlers' =
                           messageHandlersAfterOnMessage(session.mgr, key, h)
                    /\ sessions' = [sessions EXCEPT ![s].pc = "running",
                                                    ![s].handler = h]
        /\ UNCHANGED <<clients, transports, calls, status, inbox, jobs,
                       sink, evaluation>>

\* stop(): by the caller, or by the abort signal.
MonitorStop(s) ==
    /\ sessions[s].pc = "running"
    /\ sessions' = [sessions EXCEPT ![s].stopped = TRUE]
    /\ messageHandlers' = messageHandlersAfterUnregister(sessions[s].handler)
    /\ handlers' = [handlers EXCEPT ![sessions[s].handler].unregistered = TRUE]
    /\ UNCHANGED <<clients, transports, calls, status, inbox, jobs, sink,
                   evaluation>>

\* A continuation of an await on a settled promise is queued.
MicrotaskPending == \E s \in DOMAIN sessions : sessions[s].pc = "getClient"

\* The sessions of the manager and key of client c whose getClient returned
\* and whose stop has not been called.
LiveSessions(c) ==
    { s \in DOMAIN sessions :
        /\ sessions[s].mgr = transports[c].mgr
        /\ getAccountKey(sessions[s].account) = transports[c].key
        /\ sessions[s].pc \in {"getClient", "running"}
        /\ sessions[s].outcome.kind # "throw"
        /\ ~sessions[s].stopped }

\* The session whose registration passed handler h.
SessionOf(h) == CHOOSE s \in DOMAIN sessions : sessions[s].handler = h

\* What the callback of setupClientHandlers does with a message of client c:
\* nothing when no handler is registered for the key, else the handler's
\* decision.
decisionOnInbound(c, message) ==
    LET registry == messageHandlers[transports[c].mgr]
        key == transports[c].key
    IN  IF ~MapHas(registry, key)
            THEN Decision("dropped", Null)
            ELSE monitorHandlerDecision(sessions[SessionOf(registry[key])].stopped,
                                        message,
                                        sessions[SessionOf(registry[key])].account)

\* statusSink given lastInboundAt before the checks on the message.
sinkAfterInbound_BeforeChecks(decision) ==
    IF decision.decision \in {"self", "denied", "accepted"}
        THEN [sink EXCEPT !.lastInboundAt = Now]
        ELSE sink

\* statusSink?.({ lastInboundAt: Date.now() }), reached by an accepted message
sinkAfterInbound(decision) ==
    IF decision.decision = "accepted"
        THEN [sink EXCEPT !.lastInboundAt = Now]
        ELSE sink

\* processTwitchMessage(...) is called for an accepted message and runs up to
\* `await recordInboundSession(...)`.
jobsAfterInbound(c, decision) ==
    IF decision.decision = "accepted"
        THEN Append(jobs,
                    [session |-> SessionOf(messageHandlers[transports[c].mgr]
                                                          [transports[c].key]),
                     event |-> Len(inbox) + 1, pc |-> "record", pieces |-> 0,
                     next |-> 0, awaiting |-> 0, says |-> <<>>])
        ELSE jobs

\* Client c emits a chat message: the callback of setupClientHandlers, and the
\* handler of the monitor up to its first await.
Inbound(c, message) ==
    LET decision == decisionOnInbound(c, message)
        registry == messageHandlers[transports[c].mgr]
        key == transports[c].key
    IN  /\ transports[c].phase = "connected"
        /\ transports[c].quit = 0
        /\ ~MicrotaskPending
        /\ Len(inbox) < MaxInbox
        /\ handlers' = handlersAfterEvent(c)
        /\ inbox' = Append(inbox,
                           [client |-> c, message |-> message,
                            handler |-> IF MapHas(registry, key)
                                            THEN registry[key] ELSE 0,
                            live |-> LiveSessions(c),
                            decision |-> decision.decision,
                            reason |-> decision.reason])
        /\ sink' = sinkAfterInbound(decision)
        /\ jobs' = jobsAfterInbound(c, decision)
        /\ UNCHANGED <<clients, messageHandlers, transports, calls, status,
                       sessions, evaluation>>

\* recordInboundSession resolves and the dispatcher has n payloads to deliver.
JobDispatch(j, n) ==
    /\ jobs[j].pc = "record"
    /\ jobs' = [jobs EXCEPT ![j].pc = "dispatch", ![j].pieces = n, ![j].next = 1]
    /\ UNCHANGED <<clients, messageHandlers, transports, handlers, calls, status,
                   sessions, inbox, sink, evaluation>>

\* recordInboundSession rejects: the handler catches and logs.
JobFails(j) ==
    /\ jobs[j].pc = "record"
    /\ jobs' = [jobs EXCEPT ![j].pc = "failed"]
    /\ UNCHANGED <<clients, messageHandlers, transports, handlers, calls, status,
                   sessions, inbox, sink, evaluation>>

\* deliver(payload) has resolved: the dispatcher goes on to the next payload.
jobAfterDeliver(job) ==
    [job EXCEPT !.next = @ + 1, !.awaiting = 0,
                !.pc = IF job.next + 1 > job.pieces THEN "done" ELSE "dispatch"]

\* client.say(channel, payload.text) is called for the payload at hand.
sayStarted(job) ==
    [job EXCEPT !.says = Append(@, [piece |-> job.next, state |-> "pending"])]

\* The say called and not awaited: deliver resolves at once.
jobAfterSayStarted_NotAwaited(job) == jobAfterDeliver(sayStarted(job))

\* await client.say(channel, payload.text)
jobAfterSayStarted(job) ==
    [sayStarted(job) EXCEPT !.awaiting = Len(job.says) + 1]

\* The dispatcher calls deliver for the next payload once the deliver of the
\* previous one has resolved.
dispatcherMayDeliver(job) ==
    job.pc = "dispatch" /\ job.awaiting = 0 /\ job.next <= job.pieces

\* deliver(payload) -> deliverTwitchReply(...): getClient, then say.  A
\* getClient that throws is caught and logged, and deliver resolves.
DeliverStart(j) ==
    LET session == sessions[jobs[j].session]
        m == getOrCreateClientManager(session.accountId)
        outcome == getClientOutcome(m, session.account,
                                    MonitorCtx(session.cfg, session.accountId))
    IN  /\ dispatcherMayDeliver(jobs[j])
        /\ CanRun(outcome)
        /\ transports' = transportsAfterGetClient(m, session.account, outcome)
        /\ clients' = clientsAfterGetClient(m, session.account, outcome)
        /\ jobs' = [jobs EXCEPT ![j] = IF outcome.kind = "throw"
                                           THEN jobAfterDeliver(@)
                                           ELSE jobAfterSayStarted(@)]
        /\ UNCHANGED <<messageHandlers, handlers, calls, status, sessions, inbox,
                       sink, evaluation>>

\* Say number k of job j has settled: the deliver that awaits it continues.
jobAfterSay(job, k, state) ==
    LET settled == [job EXCEPT !.says[k].state = state]
    IN  IF job.awaiting = k THEN jobAfterDeliver(settled) ELSE settled

\* say number k of job j resolves: statusSink?.({ lastOutboundAt: Date.now() })
ReplySayResolves(j, k) ==
    /\ jobs[j].says[k].state = "pending"
    /\ ~MicrotaskPending
    /\ jobs' = [jobs EXCEPT ![j] = jobAfterSay(@, k, "resolved")]
    /\ sink' = IF jobs[j].awaiting = k
                   THEN [sink EXCEPT !.lastOutboundAt = Now]
                   ELSE sink
    /\ UNCHANGED <<clients, messageHandlers, transports, handlers, calls, status,
                   sessions, inbox, evaluation>>

\* say number k of job j rejects: the catch of deliverTwitchReply logs.
ReplySayRejects(j, k) ==
    /\ jobs[j].says[k].state = "pending"
    /\ ~MicrotaskPending
    /\ jobs' = [jobs EXCEPT ![j] = jobAfterSay(@, k, "rejected")]
    /\ UNCHANGED <<clients, messageHandlers, transports, handlers, calls, status,
                   sessions, inbox, sink, evaluation>>

\* The managers of the registry exist; no monitor has been started.
InitMonitor ==
    /\ clients = <<EmptyMap, EmptyMap>>
    /\ messageHandlers = <<EmptyMap, EmptyMap>>
    /\ transports = <<>>
    /\ handlers = <<>>
    /\ calls = <<>>
    /\ status = defaultRuntime
    /\ InitAux

\* Sessions starting and stopping and the events of their transports; the
\* processing of an accepted message is not followed here.
NextMonitor ==
    \/ \E cfg \in {NoCfg, CfgAlt} : MonitorStart(MonitorAccount, "alt", cfg)
    \/ \E s \in DOMAIN sessions :
           \/ MonitorResume(s)
           \/ MonitorStop(s)
    \/ \E c \in DOMAIN transports :
           \/ ~MicrotaskPending /\ ConnectCompletes(c)
           \/ \E message \in MonitorMessages : Inbound(c, message)

SpecMonitor == InitMonitor /\ [][NextMonitor]_vars

\* One session, and the processing and the replies of the messages it accepts.
NextDeliver ==
    \/ sessions = <<>> /\ MonitorStart(MonitorAccount, "alt", CfgAlt)
    \/ \E s \in DOMAIN sessions :
           \/ MonitorResume(s)
           \/ MonitorStop(s)
    \/ \E c \in DOMAIN transports :
           \/ ~MicrotaskPending /\ ConnectCompletes(c)
           \/ \E message \in MonitorMessages : Inbound(c, message)
    \/ \E j \in DOMAIN jobs :
           \/ \E n \in 1..MaxPieces : JobDispatch(j, n)
           \/ JobFails(j)
           \/ DeliverStart(j)
           \/ \E k \in DOMAIN jobs[j].says :
                  \/ ReplySayResolves(j, k)
                  \/ ReplySayRejects(j, k)

SpecDeliver == InitMonitor /\ [][NextDeliver]_vars

(***************************************************************************)
(* Outbound text: stripMarkdownForTwitch and chunkTextForTwitch.  A text   *)
(* is the sequence of its characters.  The texts of the model are over     *)
(* TextChars: a letter and the white space that the normalisation reads.   *)
(* Each markdown pattern of stripMarkdownForTwitch needs a character that  *)
(* is not in TextChars (one of ! [ * _ ~ ` # - + or a digit), so on these  *)
(* texts the replacements before the normalisation change nothing.         *)
(***************************************************************************)
TextChars == {"a", " ", "\n", "\t", "\r"}

\* [ \t] of the patterns
Blank == {" ", "\t"}

\* The characters of text at the positions that mask marks.
RECURSIVE pick(_, _)
pick(text, mask) ==
    IF text = <<>> THEN <<>>
    ELSE (IF Head(mask) THEN <<Head(text)>> ELSE <<>>)
             \o pick(Tail(text), Tail(mask))

\* .replace(/\r/g, "")
removeCarriageReturns(text) == SelectSeq(text, LAMBDA ch : ch # "\r")

\* .replace(/[ \t]+\n/g, "\n"): a blank is removed when only blanks stand
\* between it and the next newline.
removeTrailingBlanks(text) ==
    pick(text,
         [i \in DOMAIN text |->
             ~(/\ text[i] \in Blank
               /\ \E k \in (i + 1)..Len(text) :
                      /\ text[k] = "\n"
                      /\ \A m \in i..(k - 1) : text[m] \in Blank)])

\* The newlines left in place.
newlinesToSpaces_Kept(text) == text

\* .replace(/\n/g, " ")
newlinesToSpaces(text) ==
    [i \in DOMAIN text |-> IF text[i] = "\n" THEN " " ELSE text[i]]

\* .replace(/[ \t]{2,}/g, " "): a run of two or more blanks becomes one space;
\* a blank that stands alone is kept as it is.
collapseBlanks(text) ==
    LET startsRun(i) == text[i] \in Blank /\ (i = 1 \/ text[i - 1] \notin Blank)
        insideRun(i) == text[i] \in Blank /\ i > 1 /\ text[i - 1] \in Blank
        longRun(i) == i < Len(text) /\ text[i + 1] \in Blank
        replaced == [i \in DOMAIN text |->
                        IF startsRun(i) /\ longRun(i) THEN " " ELSE text[i]]
    IN  pick(replaced, [i \in DOMAIN text |-> ~insideRun(i)])

\* White space of String.prototype.trim among TextChars
WhiteSpace == {" ", "\t", "\n", "\r"}

\* .trim()
trim(text) ==
    LET inked == {i \in DOMAIN text : text[i] \notin WhiteSpace}
    IN  IF inked = {} THEN <<>>
        ELSE SubSeq(text,
                    CHOOSE i \in inked : \A k \in inked : i <= k,
                    CHOOSE i \in inked : \A k \in inked : i >= k)

\* stripMarkdownForTwitch(markdown) on a text over TextChars: the
\* normalisation of white space.
stripMarkdownForTwitch(markdown) ==
    trim(collapseBlanks(newlinesToSpaces(removeTrailingBlanks(
        removeCarriageReturns(markdown)))))

\* String.prototype.slice(start, end) and slice(start), with indices from 0
\* that are not negative.
slice(text, start, end) ==
    SubSeq(text, start + 1, IF end < Len(text) THEN end ELSE Len(text))
sliceFrom(text, start) == SubSeq(text, start + 1, Len(text))

\* The -1 of lastIndexOf
NotFound == -1

\* String.prototype.lastIndexOf(" "): the index from 0, or -1.
lastIndexOfSpace(text) ==
    LET spaces == {i \in DOMAIN text : text[i] = " "}
    IN  IF spaces = {} THEN NotFound
        ELSE (CHOOSE i \in spaces : \A k \in spaces : i >= k) - 1

\* A window one character longer than the limit.
windowOf_TooLong(remaining, limit) == slice(remaining, 0, limit + 1)

\* const window = remaining.slice(0, limit)
windowOf(remaining, limit) == slice(remaining, 0, limit)

\* The rest after a hard split, one character short.
remainingAfterHardSplit_SkipsOne(remaining, limit) ==
    sliceFrom(remaining, limit + 1)

\* remaining = remaining.slice(limit)
remainingAfterHardSplit(remaining, limit) == sliceFrom(remaining, limit)

\* remaining = remaining.slice(lastSpaceIndex + 1)
remainingAfterSpaceSplit(remaining, lastSpaceIndex) ==
    sliceFrom(remaining, lastSpaceIndex + 1)

\* A chunk pushed, with what ended it: a split at a space, a hard split at
\* the limit, or the end of the text.
Chunk(text, split) == [text |-> text, split |-> split]

\* The while loop of chunkTextForTwitch and the push of the last chunk.
RECURSIVE chunkLoop(_, _)
chunkLoop(remaining, limit) ==
    IF Len(remaining) > limit
        THEN LET window == windowOf(remaining, limit)
                 lastSpaceIndex == lastIndexOfSpace(window)
             IN  IF lastSpaceIndex = NotFound
                     THEN <<Chunk(window, "hard")>>
                              \o chunkLoop(remainingAfterHardSplit(remaining, limit),
                                           limit)
                     ELSE <<Chunk(slice(window, 0, lastSpaceIndex), "space")>>
                              \o chunkLoop(remainingAfterSpaceSplit(remaining,
                                                                    lastSpaceIndex),
                                           limit)
    ELSE IF remaining # <<>> THEN <<Chunk(remaining, "end")>>
    ELSE <<>>

\* chunkTextForTwitch(text, limit), each chunk with what ended it.
chunkTextForTwitch(text, limit) ==
    LET cleaned == stripMarkdownForTwitch(text)
    IN  IF cleaned = <<>> THEN <<>>
        ELSE IF limit <= 0 THEN <<Chunk(cleaned, "end")>>
        ELSE IF Len(cleaned) <= limit THEN <<Chunk(cleaned, "end")>>
        ELSE chunkLoop(cleaned, limit)

\* The texts of at most n characters.
RECURSIVE Texts(_)
Texts(n) ==
    IF n = 0 THEN {<<>>}
    ELSE Texts(n - 1) \cup
             {Append(text, ch) : text \in {t \in Texts(n - 1) : Len(t) = n - 1},
                                 ch \in TextChars}

\* A text and a limit are given; chunkTextForTwitch has not been called.
InitChunk ==
    /\ clients = <<EmptyMap>>
    /\ messageHandlers = <<EmptyMap>>
    /\ transports = <<>>
    /\ handlers = <<>>
    /\ calls = <<>>
    /\ status = defaultRuntime
    /\ sessions = <<>>
    /\ inbox = <<>>
    /\ jobs = <<>>
    /\ sink = [lastInboundAt |-> Null, lastOutboundAt |-> Null]
    /\ \E text \in Texts(MaxLen), limit \in 0..MaxLimit :
           evaluation = [op |-> "chunk", text |-> text, limit |-> limit,
                         pc |-> "call", chunks |-> <<>>]

\* chunkTextForTwitch(text, limit) is called and returns.
ChunkText ==
    /\ evaluation.op = "chunk"
    /\ evaluation.pc = "call"
    /\ evaluation' =
           [evaluation EXCEPT
               !.pc = "done",
               !.chunks = chunkTextForTwitch(evaluation.text, evaluation.limit)]
    /\ UNCHANGED <<clients, messageHandlers, transports, handlers, calls, status,
                   sessions, inbox, jobs, sink>>

NextChunk == ChunkText

SpecChunk == InitChunk /\ [][NextChunk]_vars

(***************************************************************************)
(* Account resolution: getAccountConfig reads channels.twitch of the core  *)
(* config.  An entry is the base level of channels.twitch or one value of  *)
(* channels.twitch.accounts; a field that is not set is Null (a string     *)
(* field) or NoToken (a token field).                                      *)
(***************************************************************************)
Entry(username, token, accessToken, clientId, channel) ==
    [present |-> TRUE, username |-> username, token |-> token,
     accessToken |-> accessToken, clientId |-> clientId, channel |-> channel]

\* No entry: an account id that accounts does not hold, a base level with no
\* field set, and the null that getAccountConfig returns.
NoEntry ==
    [present |-> FALSE, username |-> Null, token |-> NoToken,
     accessToken |-> NoToken, clientId |-> Null, channel |-> Null]

\* channels.twitch: its base-level fields and its accounts object.
CoreConfig(base, default, alt) ==
    [base |-> base,
     accounts |-> [id \in AccountIds |->
                      IF id = DEFAULT_ACCOUNT_ID THEN default ELSE alt]]

\* The configurations of the README and of the tests of getAccountConfig.
CfgEmpty == CoreConfig(NoEntry, NoEntry, NoEntry)
CfgSimplified ==
    CoreConfig(Entry("bot", NoToken, TokA, "cid", "chan"), NoEntry, NoEntry)
CfgMultiAccount ==
    CoreConfig(NoEntry,
               Entry("bot", NoToken, TokA, "cid", "chan"),
               Entry("bot", NoToken, TokB, "cid", Null))
CfgTokenField ==
    CoreConfig(NoEntry,
               Entry("bot", TokA, NoToken, "cid", Null),
               Entry("bot", TokB, NoToken, Null, "chan"))
CfgBaseOverDefault ==
    CoreConfig(Entry("bot", NoToken, NoToken, Null, Null),
               Entry("old", TokA, TokB, "cid", "chan"),
               NoEntry)
CoreConfigs ==
    {CfgEmpty, CfgSimplified, CfgMultiAccount, CfgTokenField, CfgBaseOverDefault}

\* The merge { ...accountFromAccounts, ...baseLevel }: baseLevel has every key
\* it can set, set or undefined, so its value wins for each of them; token is
\* not a key of baseLevel and comes from accounts.default.
mergedDefault(base, accountFromAccounts) ==
    [present |-> TRUE, username |-> base.username,
     token |-> accountFromAccounts.token, accessToken |-> base.accessToken,
     clientId |-> base.clientId, channel |-> base.channel]

\* getAccountConfig(coreConfig, accountId)
getAccountConfig(coreConfig, accountId) ==
    IF accountId = DEFAULT_ACCOUNT_ID
        THEN LET accountFromAccounts == coreConfig.accounts[DEFAULT_ACCOUNT_ID]
                 merged == mergedDefault(coreConfig.base, accountFromAccounts)
             IN  IF merged.username # Null THEN merged
                 ELSE IF accountFromAccounts.present THEN accountFromAccounts
                 ELSE NoEntry
    ELSE coreConfig.accounts[accountId]

\* isAccountConfigured(account) of utils/twitch.js: username, a token and
\* clientId are present.
isAccountConfigured(account) ==
    /\ account.username # Null
    /\ (account.token # NoToken \/ account.accessToken # NoToken)
    /\ account.clientId # Null

(***************************************************************************)
(* sendMessageTwitchInternal: the checks before the send, the send through *)
(* the cached manager of the account id, and the result.                   *)
(***************************************************************************)
\* { ok, messageId, error } of SendMessageResult; generateMessageId() gives
\* an id of the kind "generated".
SendResult(ok, messageId, error) ==
    [ok |-> ok, messageId |-> messageId, error |-> error]
GeneratedId == "generated"

\* stripMarkdown ? stripMarkdownForTwitch(text) : text
cleanedTextOf(text, stripMarkdown) ==
    IF stripMarkdown THEN stripMarkdownForTwitch(text) ELSE text

\* The empty-text test left out.
sendInternalEarly_NoSkip(channel, text, cfg, accountId, stripMarkdown) ==
    LET account == getAccountConfig(cfg, accountId)
    IN  IF ~account.present
            THEN SendResult(FALSE, GeneratedId, "Account not found")
        ELSE IF ~isAccountConfigured(account)
            THEN SendResult(FALSE, GeneratedId, "Account is not properly configured")
        ELSE IF channel = Null /\ account.channel = Null /\ account.username = Null
            THEN SendResult(FALSE, GeneratedId, "No channel specified")
        ELSE SendResult(TRUE, Null, Null)

\* The part of sendMessageTwitchInternal before its try block: what it
\* returns there, or ok with no messageId when it goes on to send.
sendInternalEarly(channel, text, cfg, accountId, stripMarkdown) ==
    LET account == getAccountConfig(cfg, accountId)
    IN  IF ~account.present
            THEN SendResult(FALSE, GeneratedId, "Account not found")
        ELSE IF ~isAccountConfigured(account)
            THEN SendResult(FALSE, GeneratedId, "Account is not properly configured")
        ELSE IF channel = Null /\ account.channel = Null /\ account.username = Null
            THEN SendResult(FALSE, GeneratedId, "No channel specified")
        ELSE IF cleanedTextOf(text, stripMarkdown) = <<>>
            THEN SendResult(TRUE, "skipped", Null)
        ELSE SendResult(TRUE, Null, Null)

\* getClientManager(accountId, logger): one cached manager per account id.
getClientManager(accountId) ==
    IF accountId = DEFAULT_ACCOUNT_ID THEN 1 ELSE 2

\* The account as the manager reads it.
ManagerAccount(account) ==
    Account(account.username, account.channel, account.clientId, Null)

\* The texts the send is called with.
SendTexts == {text \in Texts(MaxLen) : Len(text) <= 2}

\* sendMessageTwitchInternal(channel, text, cfg, accountId, stripMarkdown) up
\* to its first await: an early return, or clientManager.sendMessage(account,
\* channel, cleanedText), which is given neither cfg nor accountId.
SendInternalCall(channel, text, cfg, accountId, stripMarkdown, env) ==
    LET early == sendInternalEarly(channel, text, cfg, accountId, stripMarkdown)
        sends == early.ok /\ early.messageId = Null
        account == ManagerAccount(getAccountConfig(cfg, accountId))
        m == getClientManager(accountId)
        outcome == getClientOutcome(m, account, Ctx(NoCfg, Null, env))
        input == [op |-> "sendInternal", channel |-> channel, text |-> text,
                  cfg |-> cfg, accountId |-> accountId,
                  stripMarkdown |-> stripMarkdown]
    IN  /\ evaluation.op = "none"
        /\ IF sends
               THEN /\ transports' = transportsAfterGetClient(m, account, outcome)
                    /\ clients' = clientsAfterGetClient(m, account, outcome)
                    /\ calls' = Append(calls,
                                       [op |-> "sendMessage", mgr |-> m,
                                        key |-> getAccountKey(account),
                                        pc |-> "settled",
                                        outcome |-> Settled(outcome),
                                        result |-> Null])
                    /\ evaluation' = input @@ [pc |-> "send", call |-> Len(calls) + 1,
                                               result |-> early]
               ELSE /\ evaluation' = input @@ [pc |-> "done", call |-> 0,
                                               result |-> early]
                    /\ UNCHANGED <<transports, clients, calls>>
        /\ UNCHANGED <<messageHandlers, handlers, status, sessions, inbox, jobs,
                       sink>>

\* The result of sendMessageTwitchInternal from the result of sendMessage.
sendInternalResult(result) ==
    IF ~result.ok
        THEN SendResult(FALSE,
                        IF result.messageId # Null THEN result.messageId
                                                   ELSE GeneratedId,
                        IF result.error # Null THEN result.error ELSE "Send failed")
        ELSE SendResult(TRUE,
                        IF result.messageId # Null THEN result.messageId
                                                   ELSE GeneratedId,
                        Null)

\* The await of clientManager.sendMessage resumes and the function returns.
SendInternalReturn ==
    /\ evaluation.op = "sendInternal"
    /\ evaluation.pc = "send"
    /\ calls[evaluation.call].pc = "done"
    /\ evaluation' = [evaluation EXCEPT
                         !.pc = "done",
                         !.result = sendInternalResult(calls[evaluation.call].result)]
    /\ UNCHANGED <<clients, messageHandlers, transports, handlers, calls, status,
                   sessions, inbox, jobs, sink>>

NextSendInternal ==
    \/ \E channel \in {Null, "room"}, text \in SendTexts, cfg \in CoreConfigs,
          accountId \in AccountIds, stripMarkdown \in BOOLEAN,
          env \in {NoToken, TokE} :
           SendInternalCall(channel, text, cfg, accountId, stripMarkdown, env)
    \/ \E i \in DOMAIN calls :
           \/ SendMessageResume(i)
           \/ \E messageId \in MessageIds : SayResolves(i, messageId)
           \/ \E error \in SayRejections : SayRejects(i, error)
    \/ SendInternalReturn

SpecSendInternal == InitMonitor /\ [][NextSendInternal]_vars

(***************************************************************************)
(* probeTwitch: one ChatClient of its own, connect() raced against a timer *)
(* and quit() in the finally block.  The state of a probe run is the       *)
(* record evaluation: where the async function stands (pc), the client it  *)
(* constructed, the promise of connect(), the timer, and the result.       *)
(***************************************************************************)
\* The accounts probeAccount is called with.
ProbeAccounts ==
    { Entry("bot", TokA, NoToken, "cid", "chan"),
      Entry("bot", TokB \o <<"\n">>, NoToken, Null, Null),
      Entry("bot", NoToken, TokA, "cid", "chan"),
      Entry(Null, TokA, NoToken, "cid", "chan") }

\* timeoutMs
ProbeTimeouts == {500, 1000, 5000}

\* new Error(`connection timeout after ${timeoutMs}ms`)
TimeoutError(timeoutMs) ==
    Error("connection timeout after " \o ToString(timeoutMs) \o "ms")

\* What connect() can throw or reject with.
ConnectRejections ==
    { Error("Login authentication failed"),
      [type |-> "string", value |-> "String error"],
      [type |-> "undefined"] }

\* account.channel ?? account.username
probeChannel(account) ==
    IF account.channel # Null THEN account.channel ELSE account.username

\* The result of the try block's return.
probeOk(account) ==
    [ok |-> TRUE, error |-> Null, connected |-> TRUE,
     username |-> account.username, channel |-> probeChannel(account)]

\* A catch block that reports Error objects only and rethrows the rest.
probeCatch_Rethrow(account, error) ==
    IF error.type = "Error"
        THEN [ok |-> FALSE, error |-> error.message, connected |-> Null,
              username |-> account.username, channel |-> probeChannel(account)]
        ELSE [ok |-> FALSE, error |-> Null, connected |-> Null,
              username |-> account.username, channel |-> "<thrown>"]

\* The result of the catch block.
probeCatch(account, error) ==
    [ok |-> FALSE, error |-> errorText(error), connected |-> Null,
     username |-> account.username, channel |-> probeChannel(account)]

\* A finally block that does not quit.
quitsAfterFinally_NoQuit(run) == run.quit

\* finally { if (client) { try { client.quit() } catch {} } }
quitsAfterFinally(run) ==
    IF run.client = 1 THEN run.quit + 1 ELSE run.quit

\* The run returns result: the finally block runs, then the promise of the
\* probe resolves.  quitAtReturn records how many quit() calls had been made
\* when the result was handed to the caller.
probeReturned(run, result) ==
    [run EXCEPT !.pc = "returned", !.result = result,
                !.quit = quitsAfterFinally(run),
                !.quitAtReturn = quitsAfterFinally(run)]

NoProbeResult ==
    [ok |-> FALSE, error |-> Null, connected |-> Null, username |-> Null,
     channel |-> Null]

\* probeTwitch(account, timeoutMs) up to its first await.  Without token or
\* username it returns before the try block.  Otherwise the timer is armed
\* and the client constructed; connect() throws (thrown is then the value)
\* or returns a pending promise and the function awaits the race.
ProbeCall(account, timeoutMs, thrown) ==
    LET run == [op |-> "probe", account |-> account, timeoutMs |-> timeoutMs,
                pc |-> "call", client |-> 0, rawToken |-> NoToken,
                connect |-> "none", timer |-> "none", quit |-> 0,
                quitAtReturn |-> 0, result |-> NoProbeResult]
    IN  /\ evaluation.op = "none"
        /\ evaluation' =
               IF account.token = NoToken \/ account.username = Null
                   THEN [run EXCEPT
                            !.pc = "returned",
                            !.result = [ok |-> FALSE,
                                        error |-> "missing credentials (token, username)",
                                        connected |-> Null,
                                        username |-> account.username,
                                        channel |-> Null]]
               ELSE LET started == [run EXCEPT !.client = 1,
                                               !.rawToken = trim(account.token),
                                               !.timer = "armed"]
                    IN  IF thrown.type = "none"
                            THEN [started EXCEPT !.pc = "race",
                                                 !.connect = "pending"]
                            ELSE probeReturned([started EXCEPT !.connect = "threw"],
                                               probeCatch(account, thrown))
        /\ UNCHANGED <<clients, messageHandlers, transports, handlers, calls, status,
                       sessions, inbox, jobs, sink>>

\* The promise of connect() resolves.  If the probe awaits the race, it goes
\* on to the 500 ms wait.
ConnectResolves ==
    /\ evaluation.op = "probe"
    /\ evaluation.connect = "pending"
    /\ evaluation' =
           [evaluation EXCEPT
               !.connect = "resolved",
               !.pc = IF evaluation.pc = "race" THEN "wait" ELSE @]
    /\ UNCHANGED <<clients, messageHandlers, transports, handlers, calls, status,
                   sessions, inbox, jobs, sink>>

\* The promise of connect() rejects.  If the probe awaits the race, the catch
\* block and the finally block run.
ConnectRejects(error) ==
    /\ evaluation.op = "probe"
    /\ evaluation.connect = "pending"
    /\ evaluation' =
           IF evaluation.pc = "race"
               THEN probeReturned([evaluation EXCEPT !.connect = "rejected"],
                                  probeCatch(evaluation.account, error))
               ELSE [evaluation EXCEPT !.connect = "rejected"]
    /\ UNCHANGED <<clients, messageHandlers, transports, handlers, calls, status,
                   sessions, inbox, jobs, sink>>

\* The timer of timeoutMs fires and rejects the timeout promise.  If the probe
\* awaits the race, the catch block and the finally block run.
TimeoutFires ==
    /\ evaluation.op = "probe"
    /\ evaluation.timer = "armed"
    /\ evaluation' =
           IF evaluation.pc = "race"
               THEN probeReturned([evaluation EXCEPT !.timer = "fired"],
                                  probeCatch(evaluation.account,
                                             TimeoutError(evaluation.timeoutMs)))
               ELSE [evaluation EXCEPT !.timer = "fired"]
    /\ UNCHANGED <<clients, messageHandlers, transports, handlers, calls, status,
                   sessions, inbox, jobs, sink>>

\* The 500 ms wait after a successful connect elapses and the try block
\* returns.
ProbeWaitElapses ==
    /\ evaluation.op = "probe"
    /\ evaluation.pc = "wait"
    /\ evaluation' = probeReturned(evaluation, probeOk(evaluation.account))
    /\ UNCHANGED <<clients, messageHandlers, transports, handlers, calls, status,
                   sessions, inbox, jobs, sink>>

NextProbe ==
    \/ \E account \in ProbeAccounts, timeoutMs \in ProbeTimeouts,
          thrown \in ConnectRejections \cup {[type |-> "none"]} :
           ProbeCall(account, timeoutMs, thrown)
    \/ ConnectResolves
    \/ \E error \in ConnectRejections : ConnectRejects(error)
    \/ TimeoutFires
    \/ ProbeWaitElapses

SpecProbe == Init /\ [][NextProbe]_vars

\* The timers of the event loop fire, and the run is called.  The promise of
\* connect() is the network's: nothing makes it settle.
SpecProbeLive ==
    /\ Init
    /\ [][NextProbe]_vars
    /\ WF_vars(TimeoutFires)
    /\ WF_vars(ProbeWaitElapses)

(***************************************************************************)
(* collectTwitchStatusIssues: the issues of a list of account snapshots.   *)
(* Times are milliseconds on a clock that reads NowMs at the call; a time  *)
(* that is not set (null, undefined) is 0, which the code also reads as    *)
(* not set.                                                                *)
(***************************************************************************)
\* 1000 * 60 * 60 * 24
DayMs == 86400000
\* Date.now() at the call: nine days on the clock.
NowMs == 777600000

\* A ChannelAccountSnapshot: the fields the collector reads.  enabled is
\* FALSE for `enabled: false` and TRUE for true or undefined.
Snapshot(accountId, configured, enabled, running, lastStartAt, lastInboundAt, lastOutboundAt, lastError) ==
    [accountId |-> accountId, configured |-> configured, enabled |-> enabled,
     running |-> running, lastStartAt |-> lastStartAt,
     lastInboundAt |-> lastInboundAt, lastOutboundAt |-> lastOutboundAt,
     lastError |-> lastError]

\* The account that getAccountConfig(getCfg(), accountId) gives the collector:
\* the fields its checks read.
StatusAccount(token, clientId, clientSecret, refreshToken, allowFrom, allowedRoles) ==
    [present |-> TRUE, username |-> "bot", token |-> token,
     accessToken |-> NoToken, clientId |-> clientId,
     clientSecret |-> clientSecret, refreshToken |-> refreshToken,
     allowFrom |-> allowFrom, allowedRoles |-> allowedRoles]

\* No getCfg, a getCfg that throws, or an account id the config does not hold.
NoStatusAccount ==
    [present |-> FALSE, username |-> Null, token |-> NoToken,
     accessToken |-> NoToken, clientId |-> Null, clientSecret |-> Null,
     refreshToken |-> Null, allowFrom |-> None, allowedRoles |-> None]

Issue(accountId, kind, message) ==
    [channel |-> "twitch", accountId |-> accountId, kind |-> kind,
     message |-> message]

\* One issue if the condition holds, none otherwise.
IssueIf(condition, issue) == IF condition THEN <<issue>> ELSE <<>>

\* Checks 3 to 7: the checks on the account's configuration.
configIssues(accountId, account) ==
    IF account.present /\ isAccountConfigured(account)
        THEN IssueIf(account.clientId = Null,
                     Issue(accountId, "config", "Twitch client ID is required"))
             \o IssueIf(startsWith(account.token, OauthPrefix),
                        Issue(accountId, "config",
                              "Token contains 'oauth:' prefix (will be stripped)"))
             \o IssueIf(account.clientSecret # Null /\ account.refreshToken = Null,
                        Issue(accountId, "config",
                              "clientSecret provided without refreshToken"))
             \o IssueIf(account.allowFrom.defined /\ account.allowFrom.value = {},
                        Issue(accountId, "config",
                              "allowFrom is configured but empty"))
             \o IssueIf(/\ account.allowedRoles.defined
                        /\ "all" \in account.allowedRoles.value
                        /\ account.allowFrom.defined
                        /\ account.allowFrom.value # {},
                        Issue(accountId, "intent",
                              "allowedRoles is set to 'all' but allowFrom is also configured"))
        ELSE <<>>

\* The runtime checks with the check of lastError made only for an account
\* that is not running.
runtimeIssues_NotWhenRunning(entry) ==
    IssueIf(entry.lastError # Null /\ ~entry.running,
            Issue(entry.accountId, "runtime", "Last error: " \o entry.lastError))
    \o IssueIf(/\ entry.configured
               /\ ~entry.running
               /\ entry.lastStartAt = 0
               /\ entry.lastInboundAt = 0
               /\ entry.lastOutboundAt = 0,
               Issue(entry.accountId, "runtime",
                     "Account has never connected successfully"))

\* Checks 8 to 10: the checks on the runtime fields of the snapshot.
runtimeIssues(entry) ==
    IssueIf(entry.lastError # Null,
            Issue(entry.accountId, "runtime", "Last error: " \o entry.lastError))
    \o IssueIf(/\ entry.configured
               /\ ~entry.running
               /\ entry.lastStartAt = 0
               /\ entry.lastInboundAt = 0
               /\ entry.lastOutboundAt = 0,
               Issue(entry.accountId, "runtime",
                     "Account has never connected successfully"))
    \o IssueIf(/\ entry.running
               /\ entry.lastStartAt # 0
               /\ NowMs - entry.lastStartAt > 7 * DayMs,
               Issue(entry.accountId, "runtime",
                     "Connection has been running for "
                         \o ToString((NowMs - entry.lastStartAt) \div DayMs)
                         \o " days"))

\* The loop body with the runtime checks made before the configured test.
issuesOfEntry_RuntimeFirst(entry, account) ==
    IF entry.accountId = Null THEN <<>>
    ELSE IF ~entry.configured
        THEN <<Issue(entry.accountId, "config",
                     "Twitch account is not properly configured")>>
                 \o runtimeIssues(entry)
    ELSE IF ~entry.enabled
        THEN <<Issue(entry.accountId, "config", "Twitch account is disabled")>>
                 \o runtimeIssues(entry)
    ELSE configIssues(entry.accountId, account) \o runtimeIssues(entry)

\* The body of the loop for one snapshot: what it pushes.
issuesOfEntry(entry, account) ==
    IF entry.accountId = Null THEN <<>>
    ELSE IF ~entry.configured
        THEN <<Issue(entry.accountId, "config",
                     "Twitch account is not properly configured")>>
    ELSE IF ~entry.enabled
        THEN <<Issue(entry.accountId, "config", "Twitch account is disabled")>>
    ELSE configIssues(entry.accountId, account) \o runtimeIssues(entry)

\* collectTwitchStatusIssues(accounts, getCfg); accountOf[id] is the account
\* that getCfg and getAccountConfig give for the id.  Each issue is paired
\* with the index of the snapshot whose turn of the loop pushed it.
RECURSIVE collectFrom(_, _, _)
collectFrom(accounts, accountOf, i) ==
    IF i > Len(accounts) THEN <<>>
    ELSE LET entry == accounts[i]
             account == IF entry.accountId = Null THEN NoStatusAccount
                        ELSE accountOf[entry.accountId]
             pushed == issuesOfEntry(entry, account)
         IN  [k \in DOMAIN pushed |-> [entry |-> i, issue |-> pushed[k]]]
                 \o collectFrom(accounts, accountOf, i + 1)

collectTwitchStatusIssues(accounts, accountOf) ==
    collectFrom(accounts, accountOf, 1)

\* The snapshots and accounts the collector is called with.
Snapshots ==
    { Snapshot(accountId, configured, enabled, running, lastStartAt,
               lastInboundAt, lastOutboundAt, lastError) :
        accountId \in AccountIds \cup {Null},
        configured \in BOOLEAN, enabled \in BOOLEAN, running \in BOOLEAN,
        lastStartAt \in {0, DayMs, 8 * DayMs},
        lastInboundAt \in {0, 8 * DayMs}, lastOutboundAt \in {0, 8 * DayMs},
        lastError \in {Null, "Login authentication failed"} }
\* A snapshot that follows another in the list: one with no issue, one
\* unconfigured, one with a runtime issue.
LaterSnapshots ==
    { Snapshot("alt", TRUE, TRUE, TRUE, 8 * DayMs, 0, 0, Null),
      Snapshot("alt", FALSE, TRUE, FALSE, 0, 0, 0, "Missing Twitch token"),
      Snapshot("default", TRUE, TRUE, TRUE, DayMs, 0, 0, "Rate limited") }
StatusAccounts ==
    { NoStatusAccount,
      StatusAccount(TokA, "cid", Null, Null, None, None),
      StatusAccount(TokB, "cid", "secret", Null, Some({}), Some({"all"})),
      StatusAccount(TokB, Null, Null, Null, Some({"123"}), Some({"all"})) }

\* collectTwitchStatusIssues(accounts, getCfg) is called and returns.
CollectIssues(accounts, accountOf) ==
    /\ evaluation.op = "none"
    /\ evaluation' = [op |-> "collect", accounts |-> accounts,
                      accountOf |-> accountOf,
                      issues |-> collectTwitchStatusIssues(accounts, accountOf)]
    /\ UNCHANGED <<clients, messageHandlers, transports, handlers, calls, status,
                   sessions, inbox, jobs, sink>>

NextStatus ==
    \E first \in Snapshots, account \in StatusAccounts :
        \/ CollectIssues(<<first>>, [id \in AccountIds |-> account])
        \/ \E later \in LaterSnapshots :
               CollectIssues(<<first, later>>, [id \in AccountIds |-> account])

SpecStatus == Init /\ [][NextStatus]_vars

(***************************************************************************)
(* Token normalisation applied to a token, and to its own result.          *)
(***************************************************************************)
\* What a token is put together from: the prefix, the prefix in capitals and
\* without its colon, and token characters.
TokenParts ==
    { OauthPrefix, <<"O", "A", "U", "T", "H", ":">>, <<"o", "a", "u", "t", "h">>,
      <<"a">>, <<":">> }

\* The tokens of at most n parts.
RECURSIVE TokensOf(_)
TokensOf(n) ==
    IF n = 0 THEN {NoToken}
    ELSE TokensOf(n - 1) \cup
             {token \o part : token \in TokensOf(n - 1), part \in TokenParts}

\* normalizeToken(token) is called, and called again on what it returned.
NormalizeTwice(token) ==
    /\ evaluation.op = "none"
    /\ evaluation' = [op |-> "normalize", token |-> token,
                      once |-> normalizeToken(token),
                      twice |-> normalizeToken(normalizeToken(token))]
    /\ UNCHANGED <<clients, messageHandlers, transports, handlers, calls, status,
                   sessions, inbox, jobs, sink>>

NextToken == \E token \in TokensOf(MaxParts) : NormalizeTwice(token)

SpecToken == Init /\ [][NextToken]_vars

(***************************************************************************)
(* Token resolution as getClient uses it: one getClient call on a fresh    *)
(* manager, with every combination of per-account, base-level and          *)
(* environment token and every account id.                                 *)
(***************************************************************************)
\* The configuration trees: a token or none in each account entry and at the
\* base level.
ResolveCfgs ==
    { [accounts |-> [id \in AccountIds |->
                         IF id = DEFAULT_ACCOUNT_ID THEN default ELSE alt],
       base |-> base] :
          default \in {NoToken, TokA}, alt \in {NoToken, TokA},
          base \in {NoToken, TokB} }

ResolveCtxs ==
    { Ctx(cfg, accountId, env) :
          cfg \in ResolveCfgs, accountId \in AccountIds \cup {Null},
          env \in {NoToken, TokE} }

\* manager.getClient(account, cfg, accountId) on a manager without clients, up
\* to the return of its promise, kept with what it resolved the token to.
GetClientResolving(account, ctx) ==
    LET outcome == getClientOutcome(1, account, ctx)
    IN  /\ evaluation.op = "none"
        /\ CanCall
        /\ CanRun(outcome)
        /\ transports' = transportsAfterGetClient(1, account, outcome)
        /\ clients' = clientsAfterGetClient(1, account, outcome)
        /\ calls' = Append(calls,
                           [op |-> "getClient", mgr |-> 1,
                            key |-> getAccountKey(account), pc |-> "settled",
                            sequential |-> AllAwaited,
                            outcome |-> Settled(outcome), result |-> Null])
        /\ evaluation' =
               [op |-> "getClient", account |-> account, ctx |-> ctx,
                tokenResolution |->
                    resolveTwitchToken(ctx.cfg, ctx.accountId, ctx.env)]
        /\ UNCHANGED <<messageHandlers, handlers, status, sessions, inbox, jobs,
                       sink>>

NextResolve ==
    \/ \E account \in Accounts, ctx \in ResolveCtxs :
           GetClientResolving(account, ctx)
    \/ \E i \in DOMAIN calls : GetClientAwait(i)
    \/ \E c \in DOMAIN transports : ConnectCompletes(c)

SpecResolve == Init /\ [][NextResolve]_vars


(***************************************************************************)
(* The configured flag of the plugin: isConfigured and the three places of *)
(* the plugin that report it, applied to what getAccountConfig returns.    *)
(***************************************************************************)
\* Boolean(account?.token && account?.username && account?.clientId)
isConfigured(account) ==
    /\ account.present
    /\ account.token # NoToken
    /\ account.username # Null
    /\ account.clientId # Null

\* config.isConfigured(_account, cfg): the account passed is not read.
configIsConfigured(account, cfg) ==
    isConfigured(getAccountConfig(cfg, DEFAULT_ACCOUNT_ID))

\* config.describeAccount(account).configured
describeAccount(account) ==
    IF account.present THEN isConfigured(account) ELSE FALSE

\* status.buildAccountSnapshot({account}).configured
buildAccountSnapshot(account) == isConfigured(account)

\* The values of channels.twitch.accounts: no entry, an entry with token, one
\* with accessToken, one without clientId, one without username.
AccountEntries ==
    { NoEntry,
      Entry("bot", TokA, NoToken, "cid", Null),
      Entry("bot", NoToken, TokA, "cid", Null),
      Entry("bot", TokA, NoToken, Null, Null),
      Entry(Null, TokA, NoToken, "cid", "chan") }

\* The base level of channels.twitch: nothing set, the simplified form of the
\* README (token supplied as accessToken), a username alone.
BaseEntries ==
    { NoEntry,
      Entry("bot", NoToken, TokA, "cid", "chan"),
      Entry("bot", NoToken, NoToken, Null, Null) }

ConfiguredCfgs ==
    { CoreConfig(base, default, alt) :
          base \in BaseEntries, default \in AccountEntries,
          alt \in AccountEntries }

\* The core resolves the account of an id (config.resolveAccount) and asks the
\* plugin whether it is configured.
ReportConfigured(cfg, accountId) ==
    LET account == getAccountConfig(cfg, accountId)
    IN  /\ evaluation.op = "none"
        /\ evaluation' =
               [op |-> "configured", cfg |-> cfg, accountId |-> accountId,
                account |-> account,
                isConfigured |-> configIsConfigured(account, cfg),
                described |-> describeAccount(account),
                snapshot |-> buildAccountSnapshot(account)]
        /\ UNCHANGED <<clients, messageHandlers, transports, handlers, calls,
                       status, sessions, inbox, jobs, sink>>

NextConfigured ==
    \E cfg \in ConfiguredCfgs, accountId \in AccountIds :
        ReportConfigured(cfg, accountId)

SpecConfigured == Init /\ [][NextConfigured]_vars


(***************************************************************************)
(* The actions adapter: handleAction, its reading of the parameters, its   *)
(* await of twitchOutbound.sendText and its catch block.  A parameter is   *)
(* None (undefined or null) or Some string of characters.                  *)
(***************************************************************************)
\* readStringParam(args, key, options): the value read, or the Error thrown.
readStringParam(value, key, required, trimOption) ==
    IF ~value.defined
        THEN IF required
                 THEN [kind |-> "throw", value |-> None,
                       error |-> Error("Missing required parameter: " \o key)]
                 ELSE [kind |-> "return", value |-> None, error |-> Error(Null)]
        ELSE [kind |-> "return",
              value |-> Some(IF trimOption THEN trim(value.value)
                                           ELSE value.value),
              error |-> Error(Null)]

\* The object given to JSON.stringify: { ok, messageId?, error? }.
Json(ok, messageId, error) == [ok |-> ok, messageId |-> messageId, error |-> error]

\* What handleAction's promise settles with: a content of one text, null, or
\* a rejection.
ActionReturn(json) == [kind |-> "return", json |-> json, error |-> Error(Null)]
ActionNull == [kind |-> "null", json |-> Json(FALSE, Null, Null), error |-> Error(Null)]
ActionThrow(error) == [kind |-> "throw", json |-> Json(FALSE, Null, Null), error |-> error]
ActionPending == [kind |-> "pending", json |-> Json(FALSE, Null, Null), error |-> Error(Null)]

\* Object.keys(ctx.cfg.channels?.twitch?.accounts ?? {}).join(", ") || "none"
availableAccounts(cfg) ==
    LET default == cfg.accounts[DEFAULT_ACCOUNT_ID].present
        alt == cfg.accounts["alt"].present
    IN  IF default /\ alt THEN DEFAULT_ACCOUNT_ID \o ", " \o "alt"
        ELSE IF default THEN DEFAULT_ACCOUNT_ID
        ELSE IF alt THEN "alt"
        ELSE "none"

\* to || account.channel || account.username, as a truth value
hasTargetChannel(to, account) ==
    \/ to.defined /\ to.value # <<>>
    \/ account.channel # Null
    \/ account.username # Null

\* twitchOutbound.sendText is a function (index.test.ts).
sendTextDefined == TRUE

\* handleAction up to its first await or its return: the position reached and
\* what the promise has settled with by then.
handleActionSync(action, params, cfg, ctxAccountId) ==
    LET message == readStringParam(params.message, "message", TRUE, TRUE)
        to == readStringParam(params.to, "to", FALSE, TRUE)
        accountId == normalizeAccountId(ctxAccountId)
        account == getAccountConfig(cfg, accountId)
    IN  IF action # "send"
            THEN [pc |-> "done", outcome |-> ActionNull]
        ELSE IF message.kind = "throw"
            THEN [pc |-> "done", outcome |-> ActionThrow(message.error)]
        ELSE IF ~account.present
            THEN [pc |-> "done",
                  outcome |-> ActionReturn(Json(FALSE, Null,
                      "Account not found: " \o accountId
                          \o ". Available accounts: "
                          \o availableAccounts(cfg)))]
        ELSE IF ~hasTargetChannel(to.value, account)
            THEN [pc |-> "done",
                  outcome |-> ActionReturn(Json(FALSE, Null,
                      "No channel specified and no default channel in account config"))]
        ELSE IF ~sendTextDefined
            THEN [pc |-> "done",
                  outcome |-> ActionReturn(Json(FALSE, Null,
                                                "sendText not implemented"))]
        ELSE [pc |-> "sendText", outcome |-> ActionPending]

\* catch (error) { ... JSON.stringify({ ok: false, error: errorMsg }) }
handleActionCatch(error) == ActionReturn(Json(FALSE, Null, errorText(error)))

\* The parameters of a tool call: message and to, each absent, a word, or
\* white space only.
ParamValues == {None, Some(<<"a">>), Some(<<" ">>)}
ActionParams == {[message |-> m, to |-> t] : m \in ParamValues, t \in ParamValues}

\* The configurations the action is run with: an account without username and
\* channel among them.
CfgNoChannel ==
    CoreConfig(NoEntry, NoEntry, Entry(Null, TokA, NoToken, "cid", Null))
ActionCfgs == {CfgEmpty, CfgSimplified, CfgTokenField, CfgNoChannel}

\* What sendText resolves with and what it throws or rejects with.
SendTextResults ==
    {Json(TRUE, id, Null) : id \in MessageIds} \cup
    {Json(FALSE, "generated", "Account not found")}
SendTextRejections == SayRejections

\* handleAction(ctx) is called and runs to its await of sendText or to its end.
HandleActionCall(action, params, cfg, ctxAccountId) ==
    LET run == handleActionSync(action, params, cfg, ctxAccountId)
    IN  /\ evaluation.op = "none"
        /\ evaluation' =
               [op |-> "handleAction", action |-> action, params |-> params,
                cfg |-> cfg, accountId |-> ctxAccountId, pc |-> run.pc,
                outcome |-> run.outcome]
        /\ UNCHANGED <<clients, messageHandlers, transports, handlers, calls,
                       status, sessions, inbox, jobs, sink>>

\* The await of sendText resumes with its result: return JSON.stringify(result).
SendTextResolves(result) ==
    /\ evaluation.op = "handleAction"
    /\ evaluation.pc = "sendText"
    /\ evaluation' = [evaluation EXCEPT !.pc = "done",
                                        !.outcome = ActionReturn(result)]
    /\ UNCHANGED <<clients, messageHandlers, transports, handlers, calls,
                   status, sessions, inbox, jobs, sink>>

\* sendText throws or its promise rejects: the catch block runs.
SendTextRejects(error) ==
    /\ evaluation.op = "handleAction"
    /\ evaluation.pc = "sendText"
    /\ evaluation' = [evaluation EXCEPT !.pc = "done",
                                        !.outcome = handleActionCatch(error)]
    /\ UNCHANGED <<clients, messageHandlers, transports, handlers, calls,
                   status, sessions, inbox, jobs, sink>>

NextAction ==
    \/ \E action \in {"send", "react"}, params \in ActionParams,
          cfg \in ActionCfgs, ctxAccountId \in AccountIds \cup {Null} :
           HandleActionCall(action, params, cfg, ctxAccountId)
    \/ \E result \in SendTextResults : SendTextResolves(result)
    \/ \E error \in SendTextRejections : SendTextRejects(error)

SpecAction == Init /\ [][NextAction]_vars


(***************************************************************************)
(* Chat messages and whispers: the two callbacks of setupClientHandlers    *)
(* build the TwitchChatMessage the handler is given, and the monitor       *)
(* replies to the channel of that message.                                 *)
(***************************************************************************)
\* The message with the channel and chatType a callback gives it.  A channel
\* is the sequence of a "#", if it has one, and a name.
TwitchChatMessage(message, channel, chatType) ==
    [username |-> message.username, userId |-> message.userId,
     message |-> message.message, isMod |-> message.isMod,
     isOwner |-> message.isOwner, isVip |-> message.isVip,
     isSub |-> message.isSub, channel |-> channel, chatType |-> chatType]

\* client.onMessage callback: channelName without its "#", chatType "group"
messageOfOnMessage(channelName, message) ==
    TwitchChatMessage(message,
                      IF startsWith(channelName, <<"#">>)
                          THEN Tail(channelName) ELSE channelName,
                      "group")

\* client.onWhisper callback: channel is the sender's user name, chatType
\* "direct"
messageOfOnWhisper(message) ==
    TwitchChatMessage(message, <<message.username>>, "direct")

\* The room of the account, as the transport names it, and who writes: the bot
\* itself, a viewer on the allow list, a viewer who is not.
RoomName == <<"#", "chan">>
WhisperAccount ==
    WithPolicy(Account("bot", "chan", "cid", Null),
               Some({"456"}), None, None)
Senders ==
    { ChatMessage("Bot", "123", <<"hi">>, FALSE, FALSE, FALSE, FALSE),
      ChatMessage("amy", "456", <<"hi">>, FALSE, FALSE, FALSE, FALSE),
      ChatMessage("joe", "789", <<"hi">>, FALSE, FALSE, FALSE, FALSE) }

\* Client c emits a chat message of its room.
InboundChat(c, message) == Inbound(c, messageOfOnMessage(RoomName, message))

\* Client c emits a whisper.
InboundWhisper(c, message) == Inbound(c, messageOfOnWhisper(message))

\* deliver: channel: message.channel, then client.say(channel, payload.text).
\* The channel every say of job j is called with.
sayChannel(j) == inbox[jobs[j].event].message.channel

\* One session, chat messages and whispers, and the replies to those accepted.
NextWhisper ==
    \/ sessions = <<>> /\ MonitorStart(WhisperAccount, "alt", CfgAlt)
    \/ \E s \in DOMAIN sessions :
           \/ MonitorResume(s)
           \/ MonitorStop(s)
    \/ \E c \in DOMAIN transports :
           \/ ~MicrotaskPending /\ ConnectCompletes(c)
           \/ \E message \in Senders :
                  \/ InboundChat(c, message)
                  \/ InboundWhisper(c, message)
    \/ \E j \in DOMAIN jobs :
           \/ \E n \in 1..MaxPieces : JobDispatch(j, n)
           \/ JobFails(j)
           \/ DeliverStart(j)
           \/ \E k \in DOMAIN jobs[j].says :
                  \/ ReplySayResolves(j, k)
                  \/ ReplySayRejects(j, k)

SpecWhisper == InitMonitor /\ [][NextWhisper]_vars


(***************************************************************************)
(* The two callbacks of setupClientHandlers as functions of the transport  *)
(* event: the channel name and text the transport passes and its msg       *)
(* object (msg.id, msg.userInfo).  A channel name is a sequence of         *)
(* characters.                                                             *)
(***************************************************************************)
\* The "#" cut off whether it is there or not.
normalizedChannel_AlwaysSlice(channelName) == Tail(channelName)

\* channelName.startsWith("#") ? channelName.slice(1) : channelName
normalizedChannel(channelName) ==
    IF startsWith(channelName, <<"#">>) THEN Tail(channelName) ELSE channelName

\* The object the client.onMessage callback passes to the handler.
groupMessageOf(channelName, messageText, msg) ==
    [username |-> msg.userInfo.userName,
     displayName |-> msg.userInfo.displayName,
     userId |-> msg.userInfo.userId,
     message |-> messageText,
     channel |-> normalizedChannel(channelName),
     id |-> msg.id,
     isMod |-> msg.userInfo.isMod,
     isOwner |-> msg.userInfo.isBroadcaster,
     isVip |-> msg.userInfo.isVip,
     isSub |-> msg.userInfo.isSubscriber,
     chatType |-> "group"]

\* The whisper given the id of the transport's msg object.
whisperMessageOf_WithId(messageText, msg) ==
    [groupMessageOf(<<>>, messageText, msg) EXCEPT
        !.channel = msg.userInfo.userName, !.chatType = "direct"]

\* The object the client.onWhisper callback passes to the handler.
whisperMessageOf(messageText, msg) ==
    [username |-> msg.userInfo.userName,
     displayName |-> msg.userInfo.displayName,
     userId |-> msg.userInfo.userId,
     message |-> messageText,
     channel |-> msg.userInfo.userName,
     id |-> Null,
     isMod |-> msg.userInfo.isMod,
     isOwner |-> msg.userInfo.isBroadcaster,
     isVip |-> msg.userInfo.isVip,
     isSub |-> msg.userInfo.isSubscriber,
     chatType |-> "direct"]

\* The msg objects of the transport: two senders, every combination of the
\* four role flags, with an id or (a whisper) without.
TransportMsgs ==
    { [id |-> id,
       userInfo |-> [userName |-> user[1], displayName |-> user[2],
                     userId |-> user[3], isMod |-> isMod,
                     isBroadcaster |-> isBroadcaster, isVip |-> isVip,
                     isSubscriber |-> isSubscriber]] :
        id \in {"msg-1", "msg-2", Null},
        user \in {<<"amy", "Amy", "456">>, <<"bot", "Bot", "123">>},
        isMod \in BOOLEAN, isBroadcaster \in BOOLEAN, isVip \in BOOLEAN,
        isSubscriber \in BOOLEAN }

\* Channel names with one "#", none, two, and nothing else.
ChannelNames ==
    { <<"#", "c">>, <<"c">>, <<"#", "#", "c">>, <<"#">>, <<"c", "#">> }

\* The transport emits a chat message and a handler is registered.
EmitMessage(channelName, msg) ==
    /\ evaluation.op = "none"
    /\ msg.id # Null
    /\ evaluation' = [op |-> "onMessage", channelName |-> channelName,
                      msg |-> msg,
                      message |-> groupMessageOf(channelName, "hi", msg)]
    /\ UNCHANGED <<clients, messageHandlers, transports, handlers, calls, status,
                   sessions, inbox, jobs, sink>>

\* The transport emits a whisper and a handler is registered.
EmitWhisper(msg) ==
    /\ evaluation.op = "none"
    /\ evaluation' = [op |-> "onWhisper", channelName |-> <<>>, msg |-> msg,
                      message |-> whisperMessageOf("hi", msg)]
    /\ UNCHANGED <<clients, messageHandlers, transports, handlers, calls, status,
                   sessions, inbox, jobs, sink>>

NextNormalize ==
    \/ \E channelName \in ChannelNames, msg \in TransportMsgs :
           EmitMessage(channelName, msg)
    \/ \E msg \in TransportMsgs : EmitWhisper(msg)

SpecNormalize == Init /\ [][NextNormalize]_vars


(***************************************************************************)
(* The auth provider of getClient: with a clientSecret the token is        *)
(* registered by addUserForToken, a promise getClient does not await; its  *)
(* then and catch callbacks log.                                           *)
(***************************************************************************)
\* Accounts with and without clientSecret, and one without clientId.
AuthAccounts ==
    { Account("bot", "chan", "cid", "secret"),
      Account("bot", "chan", "cid", Null),
      Account("bot", Null, "cid", "secret"),
      Account("bot", "chan", Null, "secret") }

\* authProvider.addUserForToken(...) is called when the refreshing provider
\* is constructed, and not otherwise.
registrationOf(outcome) ==
    IF outcome.kind = "created" /\ outcome.auth.kind = "refreshing"
        THEN "pending" ELSE "none"

\* manager.getClient(account, cfg, accountId) on a manager without clients, up
\* to the return of its promise, kept with the state of the registration.
GetClientAuth(account, ctx) ==
    LET outcome == getClientOutcome(1, account, ctx)
    IN  /\ evaluation.op = "none"
        /\ CanCall
        /\ CanRun(outcome)
        /\ transports' = transportsAfterGetClient(1, account, outcome)
        /\ clients' = clientsAfterGetClient(1, account, outcome)
        /\ calls' = Append(calls,
                           [op |-> "getClient", mgr |-> 1,
                            key |-> getAccountKey(account), pc |-> "settled",
                            sequential |-> AllAwaited,
                            outcome |-> Settled(outcome), result |-> Null])
        /\ evaluation' = [op |-> "auth", account |-> account, ctx |-> ctx,
                          registration |-> registrationOf(outcome),
                          logged |-> Null]
        /\ UNCHANGED <<messageHandlers, handlers, status, sessions, inbox, jobs,
                       sink>>

\* addUserForToken resolves: the then callback logs the user id.
AddUserResolves ==
    /\ evaluation.op = "auth"
    /\ evaluation.registration = "pending"
    /\ evaluation' = [evaluation EXCEPT !.registration = "resolved",
                                        !.logged = "Added user"]
    /\ UNCHANGED <<clients, messageHandlers, transports, handlers, calls, status,
                   sessions, inbox, jobs, sink>>

\* addUserForToken rejects: the catch callback logs the error text.
AddUserRejects(error) ==
    /\ evaluation.op = "auth"
    /\ evaluation.registration = "pending"
    /\ evaluation' = [evaluation EXCEPT !.registration = "failed",
                                        !.logged = errorText(error)]
    /\ UNCHANGED <<clients, messageHandlers, transports, handlers, calls, status,
                   sessions, inbox, jobs, sink>>

NextAuth ==
    \/ \E account \in AuthAccounts, ctx \in TokenCtxs : GetClientAuth(account, ctx)
    \/ AddUserResolves
    \/ \E error \in ConnectRejections : AddUserRejects(error)
    \/ \E i \in DOMAIN calls : GetClientAwait(i)
    \/ \E c \in DOMAIN transports : ConnectCompletes(c)

SpecAuth == Init /\ [][NextAuth]_vars


(***************************************************************************)
(* stripMarkdownForTwitch applied to a text.  The normalisation of white   *)
(* space is its last step, so what it returns is the normalisation of      *)
(* whatever the markdown replacements left.                                *)
(***************************************************************************)
\* stripMarkdownForTwitch(markdown) is called and returns.
StripText(markdown) ==
    /\ evaluation.op = "none"
    /\ evaluation' = [op |-> "strip", markdown |-> markdown,
                      text |-> stripMarkdownForTwitch(markdown)]
    /\ UNCHANGED <<clients, messageHandlers, transports, handlers, calls, status,
                   sessions, inbox, jobs, sink>>

NextStrip == \E markdown \in Texts(MaxLen) : StripText(markdown)

SpecStrip == Init /\ [][NextStrip]_vars


(***************************************************************************)
(* The abort signal of a monitor.  monitorTwitchProvider adds stop as a    *)
(* listener of "abort" after its await of getClient and after onMessage;   *)
(* it does not read abortSignal.aborted.  A listener added to a signal     *)
(* that has already aborted is never called.  The signal of the one        *)
(* session of this specification is kept in evaluation.                    *)
(***************************************************************************)
\* No monitor has been started; the signal it will be given has aborted
\* already or has not.
InitAbort ==
    /\ clients = <<EmptyMap, EmptyMap>>
    /\ messageHandlers = <<EmptyMap, EmptyMap>>
    /\ transports = <<>>
    /\ handlers = <<>>
    /\ calls = <<>>
    /\ status = defaultRuntime
    /\ sessions = <<>>
    /\ inbox = <<>>
    /\ jobs = <<>>
    /\ sink = [lastInboundAt |-> Null, lastOutboundAt |-> Null]
    /\ \E aborted \in BOOLEAN :
           evaluation = [op |-> "signal", aborted |-> aborted]

\* abortSignal.addEventListener("abort", stop, { once: true }) has run: the
\* session is past its await and its stop has not been called.
Listening(s) == sessions[s].pc = "running" /\ ~sessions[s].stopped

\* The signal aborts: stop() runs if it is a listener by then.  The caller can
\* abort right after the call, before the continuation of the await runs.
AbortFires ==
    /\ ~evaluation.aborted
    /\ evaluation' = [evaluation EXCEPT !.aborted = TRUE]
    /\ IF sessions # <<>> /\ Listening(1)
           THEN /\ sessions' = [sessions EXCEPT ![1].stopped = TRUE]
                /\ messageHandlers' =
                       messageHandlersAfterUnregister(sessions[1].handler)
                /\ handlers' =
                       [handlers EXCEPT ![sessions[1].handler].unregistered = TRUE]
           ELSE UNCHANGED <<sessions, messageHandlers, handlers>>
    /\ UNCHANGED <<clients, transports, calls, status, inbox, jobs, sink>>

NextAbort ==
    \/ sessions = <<>> /\ MonitorStart(MonitorAccount, "alt", CfgAlt)
    \/ \E s \in DOMAIN sessions :
           \/ MonitorResume(s)
           \/ MonitorStop(s)
    \/ AbortFires
    \/ \E c \in DOMAIN transports :
           \/ ~MicrotaskPending /\ ConnectCompletes(c)
           \/ \E message \in MonitorMessages : Inbound(c, message)

SpecAbort == InitAbort /\ [][NextAbort]_vars

\* The continuation of the await always runs.
SpecAbortLive == SpecAbort /\ WF_vars(\E s \in DOMAIN sessions : MonitorResume(s))


(***************************************************************************)
(* Reconnecting after a disconnect: one manager whose callers register     *)
(* handlers, disconnect, and come back through getClient or sendMessage.   *)
(***************************************************************************)
\* The calls are made with the environment token present, for an account of
\* each key; a say() resolves or is rejected by the rate limit.  getClient,
\* sendMessage and onMessage calls share the budget of MaxOps.
ReconnectCtxs == {Ctx(NoCfg, Null, TokE)}
ReconnectAccounts ==
    { Account("bot", "chan", "cid", Null),
      Account("bot", Null, "cid", Null) }

\* manager.disconnect(account), with the call on record: the key it was made
\* for, whether it found a connection under the key, and how many handlers
\* had been registered by then.  The code keeps no such record.
DisconnectCalled(m, account) ==
    LET key == getAccountKey(account)
    IN  /\ transports' = transportsAfterDisconnect(m, key)
        /\ clients' = clientsAfterDisconnect(m, key)
        /\ messageHandlers' = messageHandlersAfterDisconnect(m, key)
        /\ evaluation' = [op |-> "disconnect", key |-> key,
                          found |-> MapHas(clients[m], key),
                          handlersBefore |-> Len(handlers)]
        /\ UNCHANGED <<handlers, calls, status, sessions, inbox, jobs, sink>>

NextReconnect ==
    \/ \E account \in ReconnectAccounts, ctx \in ReconnectCtxs :
           \/ GetClientCall(1, account, ctx)
           \/ CanCall /\ SendMessageCall(1, account, ctx)
    \/ \E i \in DOMAIN calls :
           \/ SendMessageResume(i)
           \/ SayResolves(i, "1700000000000-k3x")
           \/ SayRejects(i, Error("Rate limited"))
    \/ \E account \in ReconnectAccounts :
           \/ OnMessage(1, account)
           \/ DisconnectCalled(1, account)
    \/ \E c \in DOMAIN transports :
           \/ ConnectCompletes(c)
           \/ TransportEvent(c)

SpecReconnect == Init /\ [][NextReconnect]_vars


(***************************************************************************)
(*                              The claims                                 *)
(***************************************************************************)
SameKey(i, j) == calls[i].mgr = calls[j].mgr /\ calls[i].key = calls[j].key

IsRegistered(c) ==
    /\ MapHas(clients[transports[c].mgr], transports[c].key)
    /\ clients[transports[c].mgr][transports[c].key] = c

\* C1: of two getClient calls on one manager for one key, the second issued
\* after the first was awaited and with no disconnect of the key between
\* them, the second returns the client of the first without constructing or
\* connecting anything: connect has been invoked once on that client.
C1_SequentialGetClientReuses ==
    \A i, j \in DOMAIN calls :
        ( /\ i < j
          /\ calls[j].sequential
          /\ SameKey(i, j)
          /\ calls[i].outcome.kind # "throw"
          /\ transports[calls[i].outcome.client].quit = 0 )
        => /\ calls[j].outcome.kind = "existing"
           /\ calls[j].outcome.client = calls[i].outcome.client
           /\ transports[calls[j].outcome.client].connect = 1

C1_Witness ==
    /\ Len(calls) >= 2
    /\ calls[1].outcome.kind = "created"
    /\ calls[1].pc = "done"
    /\ calls[2].sequential
    /\ calls[2].pc = "done"
    /\ SameKey(1, 2)
    /\ transports[calls[1].outcome.client].quit = 0

\* C2: at most one live transport connection (opened and not yet quit) per
\* ConnectionKey, whichever manager opened it.
C2_OneLiveConnectionPerKey ==
    \A c, d \in DOMAIN transports :
        ( /\ transports[c].key = transports[d].key
          /\ transports[c].quit = 0
          /\ transports[d].quit = 0 )
        => c = d

\* Call j was issued for the key of call i while the connect that call i
\* started had not completed (it still has not).
IssuedBeforeConnected(i, j) ==
    /\ i < j
    /\ SameKey(i, j)
    /\ calls[i].outcome.kind = "created"
    /\ calls[j].outcome.kind # "throw"
    /\ transports[calls[i].outcome.client].phase = "connecting"
    /\ transports[calls[i].outcome.client].quit = 0

SendErrors ==
    {"Missing Twitch token", "Missing Twitch client ID", "Rate limited",
     "String error", "undefined"}

\* C4: a sendMessage call that has finished has returned, not thrown: either
\* {ok: true, messageId} after a say that resolved, or {ok: false, error} with
\* the text of the failure, for a getClient that threw and for a say that
\* rejected with an Error or with another value.
C4_SendMessageNeverThrows ==
    \A i \in DOMAIN calls :
        (calls[i].op = "sendMessage" /\ calls[i].pc = "done")
        => /\ calls[i].result.kind = "return"
           /\ calls[i].result.ok
                  => /\ calls[i].result.messageId \in MessageIds
                     /\ calls[i].outcome.kind # "throw"
           /\ ~calls[i].result.ok => calls[i].result.error \in SendErrors
           /\ calls[i].outcome.kind = "throw"
                  => /\ ~calls[i].result.ok
                     /\ calls[i].result.error = calls[i].outcome.error.message

C4_Witness ==
    \E i, j \in DOMAIN calls :
        /\ calls[i].pc = "done" /\ calls[i].result.ok
        /\ calls[j].pc = "done" /\ ~calls[j].result.ok
        /\ calls[j].result.error = "String error"

CredentialsMissing(account, ctx) ==
    \/ resolveTwitchToken(ctx.cfg, ctx.accountId, ctx.env).token = NoToken
    \/ account.clientId = Null

ThrowsAndChangesNothing ==
    /\ calls'[Len(calls')].outcome.kind = "throw"
    /\ UNCHANGED <<clients, messageHandlers, transports>>

\* C5 as claimed: every getClient call for an account with no resolvable token
\* or no clientId throws and leaves both registries and the transports as
\* they were.
C5_MissingCredentialsAlwaysThrow ==
    [][\A account \in Accounts, ctx \in TokenCtxs :
           (GetClientCall(1, account, ctx) /\ CredentialsMissing(account, ctx))
           => ThrowsAndChangesNothing]_vars

\* C5 as amended: a getClient call for an account with no resolvable token or
\* no clientId, made when the registry holds no connection for the account's
\* key, throws and leaves both registries and the transports as they were;
\* the caller's await of the rejected promise changes none of them either.
C5_MissingCredentialsThrowWhenAbsent ==
    [][ /\ \A account \in Accounts, ctx \in TokenCtxs :
               ( /\ GetClientCall(1, account, ctx)
                 /\ CredentialsMissing(account, ctx)
                 /\ ~MapHas(clients[1], getAccountKey(account)) )
               => ThrowsAndChangesNothing
        /\ \A i \in DOMAIN calls :
               (GetClientAwait(i) /\ calls[i].outcome.kind = "throw")
               => /\ calls'[i].result.kind = "throw"
                  /\ UNCHANGED <<clients, messageHandlers, transports>>
      ]_vars

\* A failed attempt, awaited, with nothing opened by it, and then a fresh
\* attempt for the same key that succeeds.
C5_Witness ==
    /\ Len(calls) >= 2
    /\ calls[1].outcome.kind = "throw"
    /\ calls[1].pc = "done"
    /\ calls[2].outcome.kind = "created"
    /\ SameKey(1, 2)
    /\ Len(transports) = 1

\* C6: a registration installs its handler for the key; the handler installed
\* for a key is the most recently registered one for that key; and an inbound
\* event is received by no handler but the one installed for the key of the
\* client that emits it.
C6_LatestHandlerOnly ==
    [][ /\ \A account \in Accounts :
               OnMessage(1, account)
               => /\ MapHas(messageHandlers'[1], getAccountKey(account))
                  /\ messageHandlers'[1][getAccountKey(account)] = Len(handlers')
        /\ \A k \in DOMAIN messageHandlers'[1] :
               \A h \in DOMAIN handlers' :
                   handlers'[h].key = k => h <= messageHandlers'[1][k]
        /\ \A h \in DOMAIN handlers :
               handlers'[h].received # handlers[h].received
               => /\ MapHas(messageHandlers[1], handlers[h].key)
                  /\ messageHandlers[1][handlers[h].key] = h
      ]_vars

C6_Witness ==
    \E g, h \in DOMAIN handlers :
        /\ g < h
        /\ handlers[g].key = handlers[h].key
        /\ handlers[g].received = 0
        /\ handlers[h].received > 0
        /\ MapHas(messageHandlers[1], handlers[h].key)
        /\ messageHandlers[1][handlers[h].key] = h

\* C7: the function returned by a registration removes the handler of that
\* registration and no other: a handler installed by a later registration
\* stays installed, and the handler of the registration receives nothing
\* after the call.
C7_UnregisterRemovesOwnHandlerOnly ==
    [][ /\ \A h \in DOMAIN handlers :
               Unregister(h)
               => /\ \A k \in DOMAIN messageHandlers'[1] :
                         messageHandlers'[1][k] # h
                  /\ \A k \in DOMAIN messageHandlers[1] :
                         messageHandlers[1][k] # h
                         => /\ MapHas(messageHandlers'[1], k)
                            /\ messageHandlers'[1][k] = messageHandlers[1][k]
        /\ \A h \in DOMAIN handlers :
               handlers[h].unregistered
               => handlers'[h].received = handlers[h].received
      ]_vars

\* C8: a disconnect that finds a client for the key invokes quit on it once,
\* the only quit that client gets, and removes the key from the connection
\* registry and from the handler registry.
C8_DisconnectQuitsAndRemoves ==
    [][\A account \in Accounts :
           (Disconnect(1, account) /\ MapHas(clients[1], getAccountKey(account)))
           => /\ transports'[clients[1][getAccountKey(account)]].quit = 1
              /\ transports[clients[1][getAccountKey(account)]].quit = 0
              /\ ~MapHas(clients'[1], getAccountKey(account))
              /\ ~MapHas(messageHandlers'[1], getAccountKey(account))]_vars

C8_Witness ==
    \E c \in DOMAIN transports, h \in DOMAIN handlers :
        /\ transports[c].quit = 1
        /\ handlers[h].key = transports[c].key
        /\ ~MapHas(clients[1], transports[c].key)
        /\ ~MapHas(messageHandlers[1], transports[c].key)
        /\ \E d \in DOMAIN transports : transports[d].quit = 0

\* C9: a disconnect leaves the clients and handlers of every other key, and
\* every other transport, as they were; when the registry holds no client
\* for the key it changes neither registry and quits nothing.
C9_DisconnectFrame ==
    [][\A account \in Accounts :
           Disconnect(1, account)
           => /\ \A k \in DOMAIN clients[1] \ {getAccountKey(account)} :
                     MapHas(clients'[1], k) /\ clients'[1][k] = clients[1][k]
              /\ \A k \in DOMAIN messageHandlers[1] \ {getAccountKey(account)} :
                     /\ MapHas(messageHandlers'[1], k)
                     /\ messageHandlers'[1][k] = messageHandlers[1][k]
              /\ DOMAIN clients'[1] \subseteq DOMAIN clients[1]
              /\ DOMAIN messageHandlers'[1] \subseteq DOMAIN messageHandlers[1]
              /\ \A c \in DOMAIN transports :
                     transports[c].key # getAccountKey(account)
                     => transports'[c] = transports[c]
              /\ ~MapHas(clients[1], getAccountKey(account))
                     => UNCHANGED <<clients, messageHandlers, transports>>]_vars

\* One key disconnected, the client and the handler of the other key in place.
C9_Witness ==
    \E c, d \in DOMAIN transports, h \in DOMAIN handlers :
        /\ transports[c].quit = 1
        /\ ~MapHas(clients[1], transports[c].key)
        /\ transports[d].quit = 0
        /\ IsRegistered(d)
        /\ handlers[h].key = transports[d].key
        /\ MapHas(messageHandlers[1], transports[d].key)
        /\ messageHandlers[1][transports[d].key] = h

\* C10: disconnectAll invokes quit once on every client of the registry and
\* on no other, and leaves the connection registry and the handler registry
\* empty.
C10_DisconnectAllQuitsEveryClient ==
    [][DisconnectAll(1)
       => /\ \A c \in DOMAIN transports :
                 IF IsRegistered(c)
                     THEN transports'[c].quit = transports[c].quit + 1
                     ELSE transports'[c] = transports[c]
          /\ clients'[1] = EmptyMap
          /\ messageHandlers'[1] = EmptyMap]_vars

\* A client quit and the handler of another key, one that never had a client,
\* gone from the registry: no operation but disconnectAll removes it.
C10_Witness ==
    /\ clients[1] = EmptyMap
    /\ messageHandlers[1] = EmptyMap
    /\ \E c \in DOMAIN transports, h \in DOMAIN handlers :
           /\ transports[c].quit = 1
           /\ \A d \in DOMAIN transports : transports[d].key # handlers[h].key

\* C11: an inbound event that a transport emits while a monitor session of
\* its key has its connection and has not been stopped reaches a handler: it
\* is not dropped for want of a registered handler.
C11_NoInboundDropped ==
    \A e \in DOMAIN inbox :
        inbox[e].live # {} => inbox[e].decision # "dropped"

\* The last signal the gateway handled for the account id was a stop.
StopHandled(accountId) ==
    /\ ~status[accountId].running
    /\ status[accountId].lastStopAt # Null

\* C12: once the stop of an account has been handled, the handler of the
\* account's session is deregistered: no handler registered for the account
\* is called with a message that arrives afterwards.
C12_NoInboundAfterStop ==
    [][\A h \in DOMAIN handlers :
           (handlers[h].accountId # Null /\ StopHandled(handlers[h].accountId))
           => handlers'[h].received = handlers[h].received]_vars

\* C13: the says of one reply start in the order of its payloads, and a say
\* starts only after every say of the reply started before it has resolved or
\* rejected.
C13_RepliesInOrder ==
    \A j \in DOMAIN jobs :
        \A a, b \in DOMAIN jobs[j].says :
            a < b => /\ jobs[j].says[a].piece < jobs[j].says[b].piece
                     /\ jobs[j].says[a].state # "pending"

\* Two says of one reply, the first rejected, the second started after it.
C13_Witness ==
    \E j \in DOMAIN jobs :
        /\ Len(jobs[j].says) = 2
        /\ jobs[j].says[1].state = "rejected"
        /\ jobs[j].says[2].state = "pending"
        /\ jobs[j].awaiting = 2

\* The handler has run on the message of the evaluation.
Handled == evaluation.op = "handler" /\ evaluation.pc = "done"

\* The sender's username is the bot's, letter case apart.
FromBot ==
    toLowerCase(evaluation.message.username) =
        toLowerCase(evaluation.account.username)

\* allowFrom is a non-empty list that holds the sender's user id.
AdmittedByAllowFrom ==
    /\ evaluation.account.allowFrom.defined
    /\ evaluation.account.allowFrom.value # {}
    /\ evaluation.message.userId \in evaluation.account.allowFrom.value

\* C14: a message whose sender's username is the bot's own, compared without
\* regard to letter case, is never accepted, whatever the policy is, a member
\* of allowFrom included: the handler returns at the self test.
C14_OwnMessagesNeverAccepted ==
    (Handled /\ FromBot) => evaluation.result.decision = "self"

\* The bot's own message, its name in another letter case, from a user id that
\* allowFrom lists: handled and not accepted.
C14_Witness ==
    /\ Handled
    /\ evaluation.message.username = "Bot"
    /\ evaluation.account.username = "bot"
    /\ AdmittedByAllowFrom
    /\ evaluation.result.decision = "self"

\* C15: a message of a sender other than the bot whose user id is in a
\* non-empty allowFrom is accepted, whatever allowedRoles, the sender's role
\* flags and requireMention are.
C15_AllowFromBypassesRolesAndMention ==
    (Handled /\ ~FromBot /\ AdmittedByAllowFrom)
        => evaluation.result.decision = "accepted"

\* An allowlisted sender with none of the required roles and no mention, where
\* a mention is required: accepted.
C15_Witness ==
    /\ Handled /\ ~FromBot /\ AdmittedByAllowFrom
    /\ evaluation.account.allowedRoles = Some({"moderator"})
    /\ ~evaluation.message.isMod
    /\ evaluation.account.requireMention = Some(TRUE)
    /\ evaluation.message.message = <<"hi">>
    /\ evaluation.result.decision = "accepted"

\* The flag of the message that a role tag names.
RoleFlag(message, tag) ==
    CASE tag = "moderator" -> message.isMod
      [] tag = "owner" -> message.isOwner
      [] tag = "vip" -> message.isVip
      [] tag = "subscriber" -> message.isSub
      [] OTHER -> FALSE

\* allowedRoles is a non-empty list.
RolesConfigured ==
    /\ evaluation.account.allowedRoles.defined
    /\ evaluation.account.allowedRoles.value # {}

\* C16: for a sender other than the bot that allowFrom does not admit, a
\* non-empty allowedRoles accepts the message exactly when it holds "all" or a
\* role tag whose flag is true for the sender; otherwise the message is denied
\* and the denial carries a reason.
C16_AllowedRolesDecide ==
    (Handled /\ ~FromBot /\ ~AdmittedByAllowFrom /\ RolesConfigured)
        => LET roles == evaluation.account.allowedRoles.value
               admitted ==
                   \/ "all" \in roles
                   \/ \E tag \in roles \cap RoleTags :
                          RoleFlag(evaluation.message, tag)
           IN  IF admitted
                   THEN evaluation.result.decision = "accepted"
                   ELSE /\ evaluation.result.decision = "denied"
                        /\ evaluation.result.reason # Null

\* A subscriber admitted by allowedRoles {"vip", "subscriber"} although the
\* allowlist is configured and does not hold the sender.
C16_Witness ==
    /\ Handled /\ ~FromBot /\ ~AdmittedByAllowFrom
    /\ evaluation.account.allowFrom = Some({"123"})
    /\ evaluation.account.allowedRoles = Some({"vip", "subscriber"})
    /\ evaluation.message.isSub /\ ~evaluation.message.isVip
    /\ ~evaluation.message.isMod /\ ~evaluation.message.isOwner
    /\ evaluation.result.decision = "accepted"

\* A sender with no required role is denied, with a reason.
C16_WitnessDenied ==
    /\ Handled /\ ~FromBot /\ ~AdmittedByAllowFrom
    /\ evaluation.account.allowedRoles = Some({"moderator"})
    /\ ~evaluation.message.isMod
    /\ evaluation.result.decision = "denied"
    /\ evaluation.result.reason # Null

\* The text has a word "@name" whose name is the account's username, letter
\* case apart.
TextMentionsBot ==
    \E i \in DOMAIN evaluation.message.message :
        LET word == Chars[evaluation.message.message[i]]
        IN  /\ Head(word) = "@"
            /\ [k \in 1..(Len(word) - 1) |-> LowerChar(word[k + 1])] =
                   toLowerCase(evaluation.account.username)

\* C17: with neither allowFrom nor allowedRoles configured, a message of a
\* sender other than the bot is accepted when requireMention is unset; when
\* requireMention is true it is accepted exactly when its text mentions the
\* bot's username, and is otherwise denied with a reason that is not the
\* reason of a role or allowlist denial.
C17_OpenPolicyAndMention ==
    (/\ Handled /\ ~FromBot
     /\ ~evaluation.account.allowFrom.defined
     /\ ~evaluation.account.allowedRoles.defined)
        => /\ ~evaluation.account.requireMention.defined
               => evaluation.result.decision = "accepted"
           /\ (/\ evaluation.account.requireMention.defined
               /\ evaluation.account.requireMention.value)
               => IF TextMentionsBot
                      THEN evaluation.result.decision = "accepted"
                      ELSE /\ evaluation.result.decision = "denied"
                           /\ evaluation.result.reason \notin
                                  {Null,
                                   "sender does not have any of the required roles",
                                   "sender is not in allowFrom allowlist"}

\* requireMention is true, no list is configured, and the text mentions
\* another user only: denied.
C17_Witness ==
    /\ Handled /\ ~FromBot
    /\ ~evaluation.account.allowFrom.defined
    /\ ~evaluation.account.allowedRoles.defined
    /\ evaluation.account.requireMention = Some(TRUE)
    /\ evaluation.message.message = <<"@amy", "hi">>
    /\ evaluation.result.decision = "denied"

\* The same policy and a text that mentions the bot in capitals: accepted.
C17_WitnessMention ==
    /\ Handled /\ ~FromBot
    /\ ~evaluation.account.allowFrom.defined
    /\ ~evaluation.account.allowedRoles.defined
    /\ evaluation.account.requireMention = Some(TRUE)
    /\ evaluation.message.message = <<"hi", "@BOT">>
    /\ evaluation.result.decision = "accepted"

\* The step delivers a message that the handler denies: the bot's own, or one
\* that access control rejects.
DeniedInbound ==
    /\ Len(inbox') = Len(inbox) + 1
    /\ inbox'[Len(inbox')].decision \in {"self", "denied"}

\* C18: a message that access control denies is dropped silently: the step
\* that delivers it starts no processing, sends nothing to a transport, and
\* leaves lastInboundAt and lastOutboundAt as they were; and no processing,
\* then or later, is of a message that was not accepted.
C18_DeniedDroppedSilently ==
    [][/\ DeniedInbound => /\ jobs' = jobs
                           /\ sink' = sink
                           /\ transports' = transports
                           /\ calls' = calls
       /\ \A j \in DOMAIN jobs' :
              inbox'[jobs'[j].event].decision = "accepted"]_vars

\* A message rejected for want of a role has been delivered to the handler of
\* a running session: nothing is processed and no inbound time is recorded.
C18_Witness ==
    /\ \E e \in DOMAIN inbox :
           /\ inbox[e].decision = "denied"
           /\ inbox[e].reason # Null
           /\ inbox[e].live # {}
    /\ jobs = <<>>
    /\ sink.lastInboundAt = Null

\* chunkTextForTwitch has returned for a limit above 0.
Chunked ==
    evaluation.op = "chunk" /\ evaluation.pc = "done" /\ evaluation.limit > 0

\* C19: for a limit above 0, every chunk that chunkTextForTwitch returns has
\* at most limit characters.
C19_ChunksWithinLimit ==
    Chunked => \A i \in DOMAIN evaluation.chunks :
                   Len(evaluation.chunks[i].text) <= evaluation.limit

\* A text cut twice at the limit: three chunks, the first two of exactly limit
\* characters.
C19_Witness ==
    /\ Chunked
    /\ evaluation.limit = 2
    /\ Len(evaluation.chunks) = 3
    /\ evaluation.chunks[1].split = "hard"
    /\ evaluation.chunks[2].split = "hard"
    /\ Len(evaluation.chunks[1].text) = 2

\* The chunks joined in order: one space after a chunk that ended at a space,
\* nothing after any other.
RECURSIVE rejoin(_)
rejoin(chunks) ==
    IF chunks = <<>> THEN <<>>
    ELSE Head(chunks).text
             \o (IF Head(chunks).split = "space" THEN <<" ">> ELSE <<>>)
             \o rejoin(Tail(chunks))

\* C20: for a limit above 0, the chunks joined in order, with one space put
\* back where a chunk ended at a space and nothing where it ended at the
\* limit, are the stripped text.
C20_ChunksRebuildStrippedText ==
    Chunked => rejoin(evaluation.chunks) = stripMarkdownForTwitch(evaluation.text)

\* A text that is cut at the limit and then at a space, and that differs from
\* its stripped form: "a a\n" with limit 1 gives "a", "", "a".
C20_Witness ==
    /\ Chunked
    /\ \E i, k \in DOMAIN evaluation.chunks :
           /\ evaluation.chunks[i].split = "hard"
           /\ evaluation.chunks[k].split = "space"
    /\ evaluation.text # stripMarkdownForTwitch(evaluation.text)

\* sendMessageTwitchInternal has been called.
SendInternalCalled == evaluation.op = "sendInternal"

\* The call has returned success without a manager call: no sendMessage was
\* issued, so no client was looked up or constructed and nothing was said.
NoOpSend ==
    /\ evaluation.pc = "done"
    /\ evaluation.result = SendResult(TRUE, "skipped", Null)
    /\ calls = <<>>
    /\ transports = <<>>

\* C21 as stated: whenever the text is empty after markdown stripping,
\* chunkTextForTwitch returns no chunk and sendMessageTwitchInternal reports
\* success without obtaining a connection or calling say.
C21_EmptyTextIsNoOp ==
    (SendInternalCalled /\ stripMarkdownForTwitch(evaluation.text) = <<>>)
        => /\ \A limit \in 0..MaxLimit :
                  chunkTextForTwitch(evaluation.text, limit) = <<>>
           /\ NoOpSend

\* C21 amended: a text that is empty after stripping gives no chunk; and when
\* the account resolves and is configured and the text that the call is to
\* send (the stripped text, or the text itself when stripMarkdown is false)
\* is empty, sendMessageTwitchInternal returns { ok: true, messageId:
\* "skipped" } with no manager call; whenever that text is empty, whatever the
\* account, no connection is obtained and nothing is said.
C21_EmptyCleanedTextIsNoOp ==
    SendInternalCalled
        => LET account == getAccountConfig(evaluation.cfg, evaluation.accountId)
               cleaned == cleanedTextOf(evaluation.text, evaluation.stripMarkdown)
           IN  /\ stripMarkdownForTwitch(evaluation.text) = <<>>
                      => \A limit \in 0..MaxLimit :
                             chunkTextForTwitch(evaluation.text, limit) = <<>>
               /\ cleaned = <<>>
                      => /\ evaluation.pc = "done"
                         /\ calls = <<>>
                         /\ transports = <<>>
                         /\ (account.present /\ isAccountConfigured(account))
                                => NoOpSend

\* A text of white space only, stripped for a configured account: skipped.
C21_Witness ==
    /\ SendInternalCalled
    /\ evaluation.text = <<" ", "\n">>
    /\ evaluation.stripMarkdown
    /\ evaluation.cfg = CfgSimplified
    /\ evaluation.accountId = DEFAULT_ACCOUNT_ID
    /\ NoOpSend

\* A probe run has constructed its client.
ProbeCreatedClient == evaluation.op = "probe" /\ evaluation.client = 1

\* C22: a probe run that constructs a client has called quit() on it when its
\* result is handed to the caller, whatever ended the run; a value that is
\* thrown is reported by its message, or by its string form when it is no
\* Error; and the run ends with a result, never with a throw.
C22_ProbeAlwaysQuits ==
    (ProbeCreatedClient /\ evaluation.pc = "returned")
        => /\ evaluation.quitAtReturn = 1
           /\ evaluation.quit = 1
           /\ evaluation.result.ok \/ evaluation.result.error # Null
           /\ evaluation.result.channel = probeChannel(evaluation.account)

\* connect() rejected with a string while the probe awaited the race: the
\* string is the error of the result and the client was quit.
C22_Witness ==
    /\ ProbeCreatedClient
    /\ evaluation.pc = "returned"
    /\ evaluation.connect = "rejected"
    /\ evaluation.result.error = "String error"
    /\ evaluation.quitAtReturn = 1

\* The run has returned the timeout result and has quit its client.
ProbeTimedOut ==
    /\ evaluation.op = "probe"
    /\ evaluation.pc = "returned"
    /\ ~evaluation.result.ok
    /\ evaluation.result.error = TimeoutError(evaluation.timeoutMs).message
    /\ evaluation.quitAtReturn = 1

\* C23: a probe that awaits a connect() which never settles still ends: the
\* timer fires, and the run returns the timeout result with its client quit.
C23_ProbeTimesOut ==
    (evaluation.op = "probe" /\ evaluation.pc = "race")
        ~> \/ evaluation.op = "probe" /\ evaluation.connect # "pending"
           \/ ProbeTimedOut

\* The run has timed out while connect() is still pending.
C23_Witness ==
    /\ evaluation.op = "probe"
    /\ evaluation.connect = "pending"
    /\ evaluation.timer = "fired"
    /\ ProbeTimedOut

\* collectTwitchStatusIssues has returned.
Collected == evaluation.op = "collect"

\* The issues that the turn of the loop for snapshot i pushed.
IssuesOfSnapshot(i) ==
    SelectSeq(evaluation.issues, LAMBDA pushed : pushed.entry = i)

\* C24: for a snapshot of an account with configured false, the collector
\* emits exactly one issue, of kind config and for that account id, whatever
\* the snapshot's enabled, lastError, running and time fields and the
\* account's configuration are; the snapshots after it are still examined.
C24_UnconfiguredYieldsOneConfigIssue ==
    Collected
        => \A i \in DOMAIN evaluation.accounts :
               LET entry == evaluation.accounts[i]
               IN  (entry.accountId # Null /\ ~entry.configured)
                       => /\ Len(IssuesOfSnapshot(i)) = 1
                          /\ IssuesOfSnapshot(i)[1].issue.kind = "config"
                          /\ IssuesOfSnapshot(i)[1].issue.accountId = entry.accountId

\* An unconfigured, disabled, running snapshot with a lastError and an old
\* start gives its one config issue, and the snapshot after it gives its own.
C24_Witness ==
    /\ Collected
    /\ Len(evaluation.accounts) = 2
    /\ LET entry == evaluation.accounts[1]
       IN  /\ entry.accountId = DEFAULT_ACCOUNT_ID
           /\ ~entry.configured /\ ~entry.enabled /\ entry.running
           /\ entry.lastError # Null
           /\ entry.lastStartAt = DayMs
    /\ Len(IssuesOfSnapshot(1)) = 1
    /\ Len(IssuesOfSnapshot(2)) = 2

\* Snapshot i has a runtime issue that carries its lastError.
HasLastErrorIssue(i) ==
    \E k \in DOMAIN IssuesOfSnapshot(i) :
        /\ IssuesOfSnapshot(i)[k].issue.kind = "runtime"
        /\ IssuesOfSnapshot(i)[k].issue.accountId = evaluation.accounts[i].accountId
        /\ IssuesOfSnapshot(i)[k].issue.message =
               "Last error: " \o evaluation.accounts[i].lastError

\* C25 as stated: every snapshot of an account that records a lastError gets
\* a runtime issue, whether or not it is configured or enabled.
C25_LastErrorAlwaysReported ==
    Collected
        => \A i \in DOMAIN evaluation.accounts :
               LET entry == evaluation.accounts[i]
               IN  (entry.accountId # Null /\ entry.lastError # Null)
                       => HasLastErrorIssue(i)

\* C25 amended: a snapshot that records a lastError gets a runtime issue with
\* that error exactly when it is configured and not disabled, whatever the
\* account's configuration is and whether or not that can be read; a snapshot
\* that is not configured, or is disabled, gets no runtime issue.
C25_LastErrorReportedWhenConfiguredAndEnabled ==
    Collected
        => \A i \in DOMAIN evaluation.accounts :
               LET entry == evaluation.accounts[i]
               IN  (entry.accountId # Null /\ entry.lastError # Null)
                       => (HasLastErrorIssue(i)
                               <=> (entry.configured /\ entry.enabled))

\* A configured, enabled, running snapshot with a lastError, for which no
\* account configuration can be read: the error is reported.
C25_Witness ==
    /\ Collected
    /\ evaluation.accounts[1].accountId = "alt"
    /\ evaluation.accounts[1].configured /\ evaluation.accounts[1].enabled
    /\ evaluation.accounts[1].running
    /\ evaluation.accounts[1].lastError # Null
    /\ ~evaluation.accountOf["alt"].present
    /\ HasLastErrorIssue(1)

\* normalizeToken has been applied to a token and to its result.
Normalized == evaluation.op = "normalize"

\* C26 as stated: normalisation is idempotent for every token.
C26_NormalizeIdempotent ==
    Normalized => evaluation.twice = evaluation.once

\* C26 amended: normalisation removes exactly one leading "oauth:" and nothing
\* else, so that normalising the result again changes nothing exactly when the
\* result does not itself begin with "oauth:", that is, when the token does
\* not begin with the prefix twice over.
C26_NormalizeStripsOnePrefix ==
    Normalized
        => /\ IF startsWith(evaluation.token, OauthPrefix)
                  THEN evaluation.token = OauthPrefix \o evaluation.once
                  ELSE evaluation.once = evaluation.token
           /\ (evaluation.twice = evaluation.once)
                  <=> ~startsWith(evaluation.token, OauthPrefix \o OauthPrefix)

\* A token with the prefix at its head and again inside it: the head is
\* removed, the inner one stays, and a second normalisation changes nothing.
C26_Witness ==
    /\ Normalized
    /\ evaluation.token = OauthPrefix \o <<"a">> \o OauthPrefix
    /\ evaluation.once = <<"a">> \o OauthPrefix
    /\ evaluation.twice = evaluation.once


\* ---- C27 ----
Resolved == evaluation.op = "getClient"

\* The token sources of the resolving call: the entry of its account id, the
\* base level, the environment.
AccountTokenOf(ctx) == ctx.cfg.accounts[normalizeAccountId(ctx.accountId)]

ForDefaultAccount(ctx) == normalizeAccountId(ctx.accountId) = DEFAULT_ACCOUNT_ID

\* The call threw "Missing Twitch token" and constructed no client.
ConnectionFailed ==
    /\ calls[1].outcome.kind = "throw"
    /\ calls[1].outcome.error = Error("Missing Twitch token")
    /\ transports = <<>>
    /\ clients[1] = EmptyMap

CredentialsPresent(account) ==
    /\ account.username # Null
    /\ (account.token # NoToken \/ account.accessToken # NoToken)
    /\ account.clientId # Null

\* C28: every account that account resolution returns is reported as
\* configured, by config.isConfigured, by describeAccount and by
\* buildAccountSnapshot, exactly when its username, a token and its clientId
\* are all present; the default account given in the simplified base-level
\* form, with its token as accessToken, and the accounts of other ids included.
C28_ConfiguredIffCredentialsPresent ==
    (evaluation.op = "configured" /\ evaluation.account.present) =>
        /\ evaluation.isConfigured <=> CredentialsPresent(evaluation.account)
        /\ evaluation.described <=> CredentialsPresent(evaluation.account)
        /\ evaluation.snapshot <=> CredentialsPresent(evaluation.account)

\* ---- C29 ----
ActionSettled == evaluation.op = "handleAction" /\ evaluation.pc = "done"

\* A JSON object carrying ok, with messageId when ok and error when not.
StructuredResult(outcome) ==
    /\ outcome.kind = "return"
    /\ outcome.json.ok => outcome.json.messageId # Null
    /\ ~outcome.json.ok => outcome.json.error # Null

\* C29: handleAction with the action "send" always resolves to a content
\* whose text is a JSON object carrying ok, with messageId or error, on
\* success and on every failure (account not found, no target channel, missing
\* message parameter, a send that throws an Error or another value); it never
\* throws.  For any other action it returns null.
C29_HandleActionNeverThrows ==
    ActionSettled =>
        IF evaluation.action = "send"
            THEN StructuredResult(evaluation.outcome)
            ELSE evaluation.outcome.kind = "null"

\* ---- C30 ----
\* The message job j processes.
MessageOfJob(j) == inbox[jobs[j].event].message

\* C30: whispers are received but not replied to: the processing of an inbound
\* message with chatType "direct" calls say on the transport for no channel.
C30_WhispersNotRepliedTo ==
    \A j \in DOMAIN jobs :
        MessageOfJob(j).chatType = "direct" => jobs[j].says = <<>>

\* ---- C31 ----
\* C31: a group-chat event is handed on with chatType "group", with the
\* transport's channel name less one leading "#" when it has one and unchanged
\* otherwise, with the id of the transport's message, and with isMod, isOwner,
\* isVip, isSub equal to the sender's moderator, broadcaster, VIP and
\* subscriber flags.
C31_GroupEventNormalized ==
    evaluation.op = "onMessage" =>
        LET name == evaluation.channelName
            msg == evaluation.msg
            message == evaluation.message
        IN  /\ message.chatType = "group"
            /\ (name # <<>> /\ name[1] = "#") =>
                   /\ Len(message.channel) = Len(name) - 1
                   /\ \A i \in 1..Len(message.channel) :
                          message.channel[i] = name[i + 1]
            /\ ~(name # <<>> /\ name[1] = "#") => message.channel = name
            /\ message.id = msg.id
            /\ message.isMod = msg.userInfo.isMod
            /\ message.isOwner = msg.userInfo.isBroadcaster
            /\ message.isVip = msg.userInfo.isVip
            /\ message.isSub = msg.userInfo.isSubscriber

\* A message of the room "##c" from a broadcaster who is no moderator: one "#"
\* is left.
C31_Witness ==
    /\ evaluation.op = "onMessage"
    /\ evaluation.channelName = <<"#", "#", "c">>
    /\ evaluation.message.channel = <<"#", "c">>
    /\ evaluation.message.isOwner
    /\ ~evaluation.message.isMod

\* ---- C32 ----
\* C32: a whisper is handed on with chatType "direct", with the sender's own
\* user name as its channel, and without an id, whatever the transport's msg
\* object holds.
C32_WhisperNormalized ==
    evaluation.op = "onWhisper" =>
        /\ evaluation.message.chatType = "direct"
        /\ evaluation.message.channel = evaluation.msg.userInfo.userName
        /\ evaluation.message.id = Null

\* A whisper whose msg object has an id field all the same.
C32_Witness ==
    /\ evaluation.op = "onWhisper"
    /\ evaluation.msg.id = "msg-1"
    /\ evaluation.message.channel = "amy"
    /\ evaluation.message.id = Null

\* ---- C33 ----
\* The channel an account connects to: account.channel ?? account.username.
ChannelOf(account) ==
    IF account.channel # Null THEN account.channel ELSE account.username

\* Handler h is the one registered for the key of client c in c's manager.
RegisteredFor(h, c) ==
    /\ handlers[h].key = transports[c].key
    /\ handlers[h].mgr = transports[c].mgr

\* C33: inbound delivery is isolated per key: whenever a handler receives an
\* event, a connection of that handler's own key emitted it, and the handlers
\* registered for other keys receive nothing in that step; accounts with the
\* same username and different channels have different keys, and their
\* connections are separate.
C33_DeliveryIsolatedPerKey ==
    /\ [](\A a, b \in Accounts :
              (a.username = b.username /\ ChannelOf(a) # ChannelOf(b))
                  => getAccountKey(a) # getAccountKey(b))
    /\ [](\A c, d \in DOMAIN transports :
              (c # d /\ transports[c].quit = 0 /\ transports[d].quit = 0
                   /\ transports[c].mgr = transports[d].mgr)
                  => transports[c].key # transports[d].key)
    /\ [][\A h \in DOMAIN handlers :
              handlers'[h].received # handlers[h].received =>
                  \E c \in DOMAIN transports :
                      /\ TransportEvent(c)
                      /\ RegisteredFor(h, c)
                      /\ \A g \in DOMAIN handlers :
                             ~RegisteredFor(g, c) =>
                                 handlers'[g].received = handlers[g].received]_vars

\* A connection of the room "chan", handlers registered for the keys of the
\* rooms "chan" and "bot" of one username, and only the handler of the room
\* "chan" has received the event the connection emitted.
C33_Witness ==
    \E c \in DOMAIN transports, h, g \in DOMAIN handlers :
        /\ transports[c].key = "bot:chan"
        /\ transports[c].phase = "connected"
        /\ RegisteredFor(h, c)
        /\ handlers[g].key = "bot:bot" /\ handlers[g].mgr = transports[c].mgr
        /\ MapHas(messageHandlers[handlers[g].mgr], "bot:bot")
        /\ handlers[h].received = 1 /\ handlers[g].received = 0

\* ---- C34 ----
\* The getClient call of the account at hand went past the credential checks.
AuthCreated == evaluation.op = "auth" /\ calls[1].outcome.kind = "created"

\* The client of the call was constructed with the strategy, connect() was
\* called on it once, it is recorded under the account's key and the call
\* returned it.
ConnectionMadeWith(strategy) ==
    /\ Len(transports) = 1
    /\ transports[1].auth = strategy
    /\ transports[1].connect = 1
    /\ transports[1].quit = 0
    /\ MapHas(clients[1], getAccountKey(evaluation.account))
    /\ clients[1][getAccountKey(evaluation.account)] = 1
    /\ calls[1].outcome.client = 1
    /\ calls[1].pc = "done" => calls[1].result = [kind |-> "return", client |-> 1]

\* C34: with a clientSecret getClient uses the refreshing strategy and
\* registers the token without waiting for it; whether that registration is
\* pending, has succeeded or has failed, the client is connected, recorded
\* under its key and returned, a failure being logged only.  Without a
\* clientSecret the static strategy is used and nothing is registered.
C34_RegistrationFailureDoesNotBlock ==
    AuthCreated =>
        IF evaluation.account.clientSecret # Null
            THEN /\ ConnectionMadeWith("refreshing")
                 /\ evaluation.registration \in {"pending", "resolved", "failed"}
                 /\ evaluation.registration = "failed" => evaluation.logged # Null
            ELSE /\ ConnectionMadeWith("static")
                 /\ evaluation.registration = "none"

\* The registration failed with a value that is no Error, and the call has
\* returned the client, which has connected.
C34_Witness ==
    /\ AuthCreated
    /\ evaluation.account.clientSecret = "secret"
    /\ evaluation.registration = "failed"
    /\ evaluation.logged = "String error"
    /\ calls[1].pc = "done"
    /\ transports[1].phase = "connected"

\* ---- C35 ----
\* C35: for every input, what stripMarkdownForTwitch returns has no "\n" and
\* no "\r", has no two space or tab characters next to each other, and neither
\* begins nor ends with white space.
C35_StrippedTextIsOneCleanLine ==
    evaluation.op = "strip" =>
        LET text == evaluation.text
        IN  /\ \A i \in DOMAIN text : text[i] \notin {"\n", "\r"}
            /\ \A i \in 1..(Len(text) - 1) :
                   ~(text[i] \in {" ", "\t"} /\ text[i + 1] \in {" ", "\t"})
            /\ text # <<>> =>
                   /\ text[1] \notin {" ", "\t", "\n", "\r"}
                   /\ text[Len(text)] \notin {" ", "\t", "\n", "\r"}

\* "a\t\n\ra": the tab before the newline goes, the newline becomes the one
\* space between the letters.
C35_Witness ==
    /\ evaluation.op = "strip"
    /\ evaluation.markdown = <<"a", "\t", "\n", "\r", "a">>
    /\ evaluation.text = <<"a", " ", "a">>

\* ---- C36 ----
\* C36: for any text and any limit above 0, every chunk that
\* chunkTextForTwitch returns is non-empty, a hard split at the limit followed
\* by a space in the remaining text included.
C36_ChunksNonEmpty ==
    Chunked => \A i \in DOMAIN evaluation.chunks :
                   evaluation.chunks[i].text # <<>>

\* ---- C37 ----
\* No handler is registered in any manager.
NoHandlerRegistered ==
    \A m \in DOMAIN messageHandlers : messageHandlers[m] = EmptyMap

\* C37: if the monitor's abort signal fires at any point, before
\* monitorTwitchProvider is called and while it awaits getClient included, the
\* monitor's handler eventually ends up deregistered, for good.
C37_AbortDeregisters ==
    evaluation.aborted ~> [](NoHandlerRegistered)

\* ---- C38 ----
\* The processing of job j has ended: every reply it produces has been handed
\* to the transport, or it failed before producing one.
Finished(j) == jobs[j].pc \in {"done", "failed"}

\* Jobs i and j process messages of the same connection.
SameConnection(i, j) ==
    inbox[jobs[i].event].client = inbox[jobs[j].event].client

\* C38: inbound messages of one connection are processed one at a time in
\* arrival order: no reply to a later message is sent to the transport before
\* every reply to an earlier allowed message of that connection has been sent.
C38_RepliesInArrivalOrder ==
    \A i, j \in DOMAIN jobs :
        (i < j /\ SameConnection(i, j) /\ jobs[j].says # <<>>) => Finished(i)

\* ---- C39 ----
\* Handler h was registered for the key of the last disconnect call, before
\* that call was made.
RegisteredBeforeDisconnect(h) ==
    /\ handlers[h].mgr = 1
    /\ handlers[h].key = evaluation.key
    /\ h <= evaluation.handlersBefore

\* Since the last disconnect call the key has a handler in the registry only
\* if onMessage was called for it again, and the handlers registered for the
\* key before the call receive no event: not from the connection a getClient
\* or a sendMessage made for the key afterwards, nor from any other.
NoHandlerSinceDisconnect ==
    /\ [](\A h \in DOMAIN handlers :
              (evaluation.op = "disconnect" /\ RegisteredBeforeDisconnect(h))
                  => ~(/\ MapHas(messageHandlers[1], evaluation.key)
                       /\ messageHandlers[1][evaluation.key] = h))
    /\ [][\A h \in DOMAIN handlers :
              (evaluation.op = "disconnect" /\ evaluation'.op = "disconnect"
                   /\ RegisteredBeforeDisconnect(h))
                  => handlers'[h].received = handlers[h].received]_vars

\* C39 as stated: after every disconnect(account), the connection a later
\* getClient or sendMessage creates for the key has no handler installed, and
\* its events reach no handler until onMessage is called again for the key.
C39_AfterDisconnectNoHandler == NoHandlerSinceDisconnect

\* C39 amended: the same after a disconnect that found a connection under the
\* key; a disconnect of a key without a connection leaves the handler.
C39_AfterDisconnectOfConnectionNoHandler ==
    /\ [](\A h \in DOMAIN handlers :
              (evaluation.op = "disconnect" /\ evaluation.found
                   /\ RegisteredBeforeDisconnect(h))
                  => ~(/\ MapHas(messageHandlers[1], evaluation.key)
                       /\ messageHandlers[1][evaluation.key] = h))
    /\ [][\A h \in DOMAIN handlers :
              (evaluation.op = "disconnect" /\ evaluation'.op = "disconnect"
                   /\ evaluation.found /\ evaluation'.found
                   /\ RegisteredBeforeDisconnect(h))
                  => handlers'[h].received = handlers[h].received]_vars

\* A sendMessage call created a second connection for a key whose first
\* connection was disconnected; the connection is up, the handler registered
\* before the disconnect has received the one event the first connection
\* emitted, and the registry has no handler for the key.
C39_Witness ==
    \E c, d \in DOMAIN transports, h \in DOMAIN handlers, i \in DOMAIN calls :
        /\ evaluation.op = "disconnect" /\ evaluation.found
        /\ RegisteredBeforeDisconnect(h)
        /\ handlers[h].received = 1
        /\ c < d
        /\ transports[c].key = evaluation.key /\ transports[c].quit = 1
        /\ transports[d].key = evaluation.key /\ transports[d].quit = 0
        /\ transports[d].phase = "connected"
        /\ ~MapHas(messageHandlers[1], evaluation.key)
        /\ calls[i].op = "sendMessage" /\ calls[i].key = evaluation.key
        /\ calls[i].outcome.kind = "created" /\ calls[i].outcome.client = d


\* ---- C40 ----
\* The value a field has after a field-wise merge: the base-level value when
\* the field is set at base level, the value of accounts.default otherwise.
MergedField(baseValue, defaultValue, unset) ==
    IF baseValue # unset THEN baseValue ELSE defaultValue

\* The field-wise merge of the base level and accounts.default.
FieldwiseMerge(base, default) ==
    [present |-> TRUE,
     username |-> MergedField(base.username, default.username, Null),
     token |-> MergedField(base.token, default.token, NoToken),
     accessToken |-> MergedField(base.accessToken, default.accessToken, NoToken),
     clientId |-> MergedField(base.clientId, default.clientId, Null),
     channel |-> MergedField(base.channel, default.channel, Null)]

\* What the merge rule gives for an account id: the merge for the default
\* account, the accounts entry for another id, and null (NoEntry) when that
\* has no username.
ResolvedByMergeRule(cfg, accountId) ==
    LET account == IF accountId = DEFAULT_ACCOUNT_ID
                       THEN FieldwiseMerge(cfg.base, cfg.accounts[DEFAULT_ACCOUNT_ID])
                       ELSE cfg.accounts[accountId]
    IN  IF account.username # Null THEN account ELSE NoEntry

\* C40: getAccountConfig for the default account returns the field-wise merge
\* of the base level and accounts.default, each field taking the base-level
\* value when it is set there and keeping its accounts.default value
\* otherwise; for another account id it returns the accounts entry; it returns
\* null when no username can be resolved.
C40_DefaultAccountIsFieldwiseMerge ==
    evaluation.op = "configured" =>
        evaluation.account = ResolvedByMergeRule(evaluation.cfg, evaluation.accountId)
=============================================================================
